---- MODULE Spec2Model ----
(***************************************************************************)
(* Model of soter's digest context (soter::hash::Hash) and of the safe     *)
(* BoringSSL wrappers it is built on (soter-boringssl/src/hash.rs).        *)
(*                                                                         *)
(* One Hash object is followed from construction to destruction.  The      *)
(* native digest engine is an external collaborator reached over FFI: its  *)
(* return codes are inputs of the actions (any c_int outcome the wrappers  *)
(* distinguish), and the digest it produces is an uninterpreted function   *)
(* of the algorithm and of the bytes it was fed.                           *)
(***************************************************************************)
EXTENDS Naturals, Sequences, FiniteSets, TLC

(***************************************************************************)
(* Bounds of the model.                                                    *)
(***************************************************************************)
\* Calls made on CRC32C accumulators.
MaxCrcOps == 5
\* Those of them that pass a buffer in (update, checksum).
MaxFeeds == 2
\* Calls made into the dispatch layer by all threads together.
MaxCalls == 3
\* Longest buffer the backends are compared on.
MaxBufLen == 20
\* Calls made on one Hash after its construction.
MaxOps == 4
\* Longest byte string passed to one write call.
MaxWriteLen == 2
\* Most bytes fed to one Hash over its lifetime.
MaxFed == 3
\* How far past output_size() a caller's buffer may reach.
MaxExtra == 1
\* How far short of output_size() a caller's buffer may fall.
MaxShort == 1

(***************************************************************************)
(* Program constants.                                                      *)
(***************************************************************************)
\* 256 / 8: output size of SHA-256.
SHA256_SIZE == 32
\* 512 / 8: output size of SHA-512.
SHA512_SIZE == 64
\* c_int value with which BoringSSL reports success.
RC_OK == 1
\* vec![0; ...]: the byte get() fills its vector with.
GET_FILL == 0

\* pub const CRC32C_UNROLL_THRESHOLD: usize = 16
CRC32C_UNROLL_THRESHOLD == 16
\* size_of::<u32>() and size_of::<u64>(): what align_to aligns to.
DWORD_SIZE == 4
QWORD_SIZE == 8

\* pub enum Algorithm
Algorithm == {"SHA256", "SHA512"}

\* Byte values the caller writes into the hash.
Bytes == {97, 98}
\* Byte value a caller's output buffer is filled with before finalise (0xED).
Fills == {237}
\* Return codes of the native calls: success and failure.
ReturnCodes == {0, RC_OK}

VARIABLES
    life,       \* "unborn" | "live" | "unwinding" | "gone": where the Hash is
    chosen,     \* the Algorithm passed to Hash::new ("none" before)
    finalised,  \* Hash.finalised
    ctx,        \* Hash.ctx: the native digest handle and what it holds
    allocs,     \* native handles allocated (boringssl::EVP_MD_CTX_create)
    destroys,   \* native handles released (boringssl::EVP_MD_CTX_destroy)
    written,    \* bytes of the write calls that returned, in order
    lateNative, \* native update/final calls made on a handle already finalised
    okFinals,   \* finalise calls that returned Ok
    nops,       \* calls made after construction
    prev,       \* the call before the last: its name and the kind of its result
    last        \* the last call: its arguments and what it gave back

\* The CRC-32C side of the process (soter/src/crc).
VARIABLES
    cpu,        \* the build target and whether its CPU has SSE 4.2
    probes,     \* evaluations of is_x86_feature_detected!("sse4.2") so far
    hwRuns,     \* executions of sse42::update_crc32c so far
    reg,        \* the accumulator in use, if any (live), and its CRC32C.0 (val)
    crcFed,     \* bytes fed to it since new() or the last reset()
    crcOps,     \* calls made on accumulators
    feeds,      \* those of them that passed a buffer in (update, checksum)
    crcLast,    \* the last of them: its argument and what it gave back
    resets,     \* the last two reset() calls, latest first: bytes fed, value
    slot,       \* static UPDATE_CRC32C: the function it points to
    th,         \* per thread: where its dispatch call is, and its locals
    stores,     \* the functions stored into UPDATE_CRC32C so far
    detects,    \* executions of detect_update_crc32c so far
    calls,      \* dispatch calls started so far
    input,      \* the buffer the backends are compared on
    state0,     \* the register they are started from
    outs        \* per backend function: its last call on input from state0

hashVars == <<life, chosen, finalised, ctx, allocs, destroys, written, lateNative,
              okFinals, nops, prev, last>>
crcVars == <<cpu, probes, hwRuns, reg, crcFed, crcOps, feeds, crcLast, resets, slot, th,
             stores, detects, calls, input, state0, outs>>
vars == <<hashVars, crcVars>>

(***************************************************************************)
(* Values.                                                                 *)
(***************************************************************************)
\* One cell of a caller's buffer: a byte the caller put there, or byte `val`
\* of the digest of `of` under `alg`, or a byte of unspecified content.
CallerByte(v) == [who |-> "caller", val |-> v, of |-> <<>>, alg |-> ""]
DigestByte(alg, fed, i) == [who |-> "digest", val |-> i, of |-> fed, alg |-> alg]
JunkByte(i) == [who |-> "junk", val |-> i, of |-> <<>>, alg |-> ""]

\* A caller's buffer of n bytes, each holding v.
FilledBuffer(n, v) == [i \in 1..n |-> CallerByte(v)]

\* ErrorKind and Result.
Ok == [ok |-> TRUE, kind |-> "Ok", need |-> 0]
Failure == [ok |-> FALSE, kind |-> "Failure", need |-> 0]
BufferTooSmall(n) == [ok |-> FALSE, kind |-> "BufferTooSmall", need |-> n]

\* impl From<boringssl::Error> for Error: the kinds map one to one.
FromBoringssl(e) ==
    CASE e.kind = "Failure" -> Failure
      [] e.kind = "BufferTooSmall" -> BufferTooSmall(e.need)
      [] OTHER -> e

\* ResultExt::default_error: 1 is success, anything else a Failure.
default_error(rc) == IF rc = RC_OK THEN Ok ELSE Failure

\* All byte strings of length 0..n over Bytes.
RECURSIVE ByteStrings(_)
ByteStrings(n) ==
    IF n = 0 THEN {<<>>}
    ELSE LET shorter == ByteStrings(n - 1)
         IN  shorter \cup {Append(s, b) : s \in {t \in shorter : Len(t) = n - 1}, b \in Bytes}

(***************************************************************************)
(* The native digest engine, as the wrappers see it over FFI.              *)
(* A handle is [state, md, fed]: state is "null" (no handle), "alloc"      *)
(* (allocated), "init" (set up for a digest), "final" (digest retrieved    *)
(* and wiped), "unknown" (a call on it reported failure) or "freed"; md is *)
(* the digest descriptor; fed is every byte an update call delivered.      *)
(***************************************************************************)
NoMD == [name |-> "none", size |-> 0]
NullCtx == [state |-> "null", md |-> NoMD, fed |-> <<>>]

\* boringssl::EVP_sha256() and boringssl::EVP_sha512(): digest descriptors.
EVP_sha256 == [name |-> "SHA256", size |-> SHA256_SIZE]
EVP_sha512 == [name |-> "SHA512", size |-> SHA512_SIZE]

\* boringssl::EVP_MD_CTX_create: a new handle, or null.
native_EVP_MD_CTX_create(allocOk) ==
    IF allocOk THEN [state |-> "alloc", md |-> NoMD, fed |-> <<>>] ELSE NullCtx

\* boringssl::EVP_MD_CTX_destroy
native_EVP_MD_CTX_destroy(c) == [c EXCEPT !.state = "freed"]

\* boringssl::EVP_DigestInit_ex
native_EVP_DigestInit_ex(c, type, rc) ==
    IF rc = RC_OK
    THEN [rc |-> rc, ctx |-> [state |-> "init", md |-> type, fed |-> <<>>]]
    ELSE [rc |-> rc, ctx |-> [c EXCEPT !.state = "unknown"]]

\* boringssl::EVP_MD_CTX_size
native_EVP_MD_CTX_size(c) == c.md.size

\* boringssl::EVP_DigestUpdate
native_EVP_DigestUpdate(c, bytes, rc) ==
    IF rc = RC_OK
    THEN [rc |-> rc, ctx |-> [c EXCEPT !.fed = c.fed \o bytes]]
    ELSE [rc |-> rc, ctx |-> [c EXCEPT !.state = "unknown"]]

\* boringssl::EVP_DigestFinal_ex(ctx, out, &size): on success writes md.size
\* bytes at out (whatever room there is: overrun when the buffer is shorter),
\* sets size, and wipes the digest from the handle.  Only a handle in "init"
\* holds a digest of what it was fed; any other gives unspecified bytes.
native_EVP_DigestFinal_ex(c, buffer, rc) ==
    IF rc = RC_OK
    THEN [rc |-> rc,
          ctx |-> [c EXCEPT !.state = "final"],
          buffer |-> [i \in 1..Len(buffer) |->
                        IF i <= c.md.size
                        THEN IF c.state = "init"
                             THEN DigestByte(c.md.name, c.fed, i)
                             ELSE JunkByte(i)
                        ELSE buffer[i]],
          size |-> c.md.size,
          overrun |-> Len(buffer) < c.md.size]
    ELSE [rc |-> rc,
          ctx |-> [c EXCEPT !.state = "unknown"],
          buffer |-> buffer,
          size |-> 0,
          overrun |-> FALSE]

(***************************************************************************)
(* soter-boringssl/src/hash.rs: the safe wrappers.                         *)
(***************************************************************************)
\* pub fn EVP_MD_CTX_create() -> Result<EVP_MD_CTX>
EVP_MD_CTX_create(allocOk) ==
    LET c == native_EVP_MD_CTX_create(allocOk)
    IN  IF c.state = "null"
        THEN [res |-> Failure, ctx |-> c]
        ELSE [res |-> Ok, ctx |-> c]

\* impl Drop for EVP_MD_CTX
Drop_EVP_MD_CTX(c) == [ctx |-> native_EVP_MD_CTX_destroy(c), released |-> 1]

\* pub fn EVP_MD_CTX_size(ctx: &EVP_MD_CTX) -> usize
EVP_MD_CTX_size(c) == native_EVP_MD_CTX_size(c)

\* Variant of EVP_DigestInit that drops the native return code.
EVP_DigestInit_Unchecked(c, type, rc) ==
    LET n == native_EVP_DigestInit_ex(c, type, rc)
    IN  [res |-> Ok, ctx |-> n.ctx]

\* pub fn EVP_DigestInit(ctx, type_) -> Result<()>
EVP_DigestInit(c, type, rc) ==
    LET n == native_EVP_DigestInit_ex(c, type, rc)
    IN  [res |-> default_error(n.rc), ctx |-> n.ctx]

\* pub fn EVP_DigestUpdate(ctx, bytes) -> Result<()>
EVP_DigestUpdate(c, bytes, rc) ==
    LET n == native_EVP_DigestUpdate(c, bytes, rc)
    IN  [res |-> default_error(n.rc), ctx |-> n.ctx]

\* Variant of EVP_DigestFinal_ex that returns the whole buffer, not buffer[..size].
EVP_DigestFinal_ex_WholeBuffer(c, buffer, rc) ==
    LET need_size == EVP_MD_CTX_size(c)
    IN  IF Len(buffer) < need_size
        THEN [res |-> BufferTooSmall(need_size), ctx |-> c, buffer |-> buffer,
              slice |-> <<>>, native |-> FALSE, overrun |-> FALSE]
        ELSE LET n == native_EVP_DigestFinal_ex(c, buffer, rc)
             IN  IF ~default_error(n.rc).ok
                 THEN [res |-> default_error(n.rc), ctx |-> n.ctx, buffer |-> n.buffer,
                       slice |-> <<>>, native |-> TRUE, overrun |-> n.overrun]
                 ELSE [res |-> Ok, ctx |-> n.ctx, buffer |-> n.buffer,
                       slice |-> n.buffer, native |-> TRUE, overrun |-> n.overrun]

\* Variant of EVP_DigestFinal_ex that rejects a buffer of exactly need_size (<=).
EVP_DigestFinal_ex_OffByOne(c, buffer, rc) ==
    LET need_size == EVP_MD_CTX_size(c)
    IN  IF Len(buffer) <= need_size
        THEN [res |-> BufferTooSmall(need_size), ctx |-> c, buffer |-> buffer,
              slice |-> <<>>, native |-> FALSE, overrun |-> FALSE]
        ELSE LET n == native_EVP_DigestFinal_ex(c, buffer, rc)
             IN  IF ~default_error(n.rc).ok
                 THEN [res |-> default_error(n.rc), ctx |-> n.ctx, buffer |-> n.buffer,
                       slice |-> <<>>, native |-> TRUE, overrun |-> n.overrun]
                 ELSE [res |-> Ok, ctx |-> n.ctx, buffer |-> n.buffer,
                       slice |-> SubSeq(n.buffer, 1, n.size),
                       native |-> TRUE, overrun |-> n.overrun]

\* Variant of EVP_DigestFinal_ex that passes the buffer's length as the "size"
\* parameter and lets the native call run before looking at the length.
EVP_DigestFinal_ex_NativeFirst(c, buffer, rc) ==
    LET need_size == EVP_MD_CTX_size(c)
        n == native_EVP_DigestFinal_ex(c, buffer, rc)
    IN  IF Len(buffer) < need_size
        THEN [res |-> BufferTooSmall(need_size), ctx |-> n.ctx, buffer |-> n.buffer,
              slice |-> <<>>, native |-> TRUE, overrun |-> n.overrun]
        ELSE IF ~default_error(n.rc).ok
             THEN [res |-> default_error(n.rc), ctx |-> n.ctx, buffer |-> n.buffer,
                   slice |-> <<>>, native |-> TRUE, overrun |-> n.overrun]
             ELSE [res |-> Ok, ctx |-> n.ctx, buffer |-> n.buffer,
                   slice |-> SubSeq(n.buffer, 1, n.size),
                   native |-> TRUE, overrun |-> n.overrun]

\* pub fn EVP_DigestFinal_ex(ctx, buffer) -> Result<&[u8]>
\* native: whether the native call was made; slice: the returned sub-slice.
EVP_DigestFinal_ex(c, buffer, rc) ==
    LET need_size == EVP_MD_CTX_size(c)
    IN  IF Len(buffer) < need_size
        THEN [res |-> BufferTooSmall(need_size), ctx |-> c, buffer |-> buffer,
              slice |-> <<>>, native |-> FALSE, overrun |-> FALSE]
        ELSE LET n == native_EVP_DigestFinal_ex(c, buffer, rc)
             IN  IF ~default_error(n.rc).ok
                 THEN [res |-> default_error(n.rc), ctx |-> n.ctx, buffer |-> n.buffer,
                       slice |-> <<>>, native |-> TRUE, overrun |-> n.overrun]
                 ELSE [res |-> Ok, ctx |-> n.ctx, buffer |-> n.buffer,
                       slice |-> SubSeq(n.buffer, 1, n.size),
                       native |-> TRUE, overrun |-> n.overrun]

(***************************************************************************)
(* soter/src/hash.rs: Hash.  Its methods as functions of the fields        *)
(* (ctx, finalised), of the arguments and of the native return code.       *)
(***************************************************************************)
\* Variant of try_new that keeps the handle as a raw pointer until it is
\* initialised: the ? on EVP_DigestInit then releases nothing.
Hash_try_new_Leak(algorithm, allocOk, initRc) ==
    LET evp == IF algorithm = "SHA256" THEN EVP_sha256 ELSE EVP_sha512
        c == EVP_MD_CTX_create(allocOk)
    IN  IF ~c.res.ok
        THEN [res |-> FromBoringssl(c.res), ctx |-> c.ctx, finalised |-> FALSE,
              allocs |-> 0, destroys |-> 0]
        ELSE LET i == EVP_DigestInit(c.ctx, evp, initRc)
             IN  IF ~i.res.ok
                 THEN [res |-> FromBoringssl(i.res), ctx |-> i.ctx,
                       finalised |-> FALSE, allocs |-> 1, destroys |-> 0]
                 ELSE [res |-> Ok, ctx |-> i.ctx, finalised |-> FALSE,
                       allocs |-> 1, destroys |-> 0]

\* Variant of try_new whose match arms both name EVP_sha256().
Hash_try_new_SameDigest(algorithm, allocOk, initRc) ==
    LET evp == IF algorithm = "SHA256" THEN EVP_sha256 ELSE EVP_sha256
        c == EVP_MD_CTX_create(allocOk)
    IN  IF ~c.res.ok
        THEN [res |-> FromBoringssl(c.res), ctx |-> c.ctx, finalised |-> FALSE,
              allocs |-> 0, destroys |-> 0]
        ELSE LET i == EVP_DigestInit(c.ctx, evp, initRc)
             IN  IF ~i.res.ok
                 THEN LET d == Drop_EVP_MD_CTX(i.ctx)
                      IN  [res |-> FromBoringssl(i.res), ctx |-> d.ctx,
                           finalised |-> FALSE, allocs |-> 1, destroys |-> d.released]
                 ELSE [res |-> Ok, ctx |-> i.ctx, finalised |-> FALSE,
                       allocs |-> 1, destroys |-> 0]

\* fn try_new(algorithm) -> Result<Hash>.  allocs and destroys count the
\* native handles it allocated and released (the ? on EVP_DigestInit drops
\* the local ctx).
Hash_try_new(algorithm, allocOk, initRc) ==
    LET evp == IF algorithm = "SHA256" THEN EVP_sha256 ELSE EVP_sha512
        c == EVP_MD_CTX_create(allocOk)
    IN  IF ~c.res.ok
        THEN [res |-> FromBoringssl(c.res), ctx |-> c.ctx, finalised |-> FALSE,
              allocs |-> 0, destroys |-> 0]
        ELSE LET i == EVP_DigestInit(c.ctx, evp, initRc)
             IN  IF ~i.res.ok
                 THEN LET d == Drop_EVP_MD_CTX(i.ctx)
                      IN  [res |-> FromBoringssl(i.res), ctx |-> d.ctx,
                           finalised |-> FALSE, allocs |-> 1, destroys |-> d.released]
                 ELSE [res |-> Ok, ctx |-> i.ctx, finalised |-> FALSE,
                       allocs |-> 1, destroys |-> 0]

\* pub fn new(algorithm) -> Hash: try_new(...).expect("failed to make a new Hash")
Hash_new(algorithm, allocOk, initRc) ==
    LET t == Hash_try_new(algorithm, allocOk, initRc)
    IN  [try |-> t,
         panic |-> IF t.res.ok THEN "" ELSE "failed to make a new Hash"]

\* Variant of finalise that never sets self.finalised.
Hash_finalise_FlagNeverSet(c, fin, buffer, rc) ==
    IF fin
    THEN [res |-> Failure, ctx |-> c, finalised |-> fin, buffer |-> buffer,
          slice |-> <<>>, native |-> FALSE, overrun |-> FALSE]
    ELSE LET r == EVP_DigestFinal_ex(c, buffer, rc)
         IN  [res |-> FromBoringssl(r.res), ctx |-> r.ctx, finalised |-> fin,
              buffer |-> r.buffer, slice |-> r.slice, native |-> r.native,
              overrun |-> r.overrun]

\* Variant of finalise that sets self.finalised before the native call.
Hash_finalise_FlagFirst(c, fin, buffer, rc) ==
    IF fin
    THEN [res |-> Failure, ctx |-> c, finalised |-> fin, buffer |-> buffer,
          slice |-> <<>>, native |-> FALSE, overrun |-> FALSE]
    ELSE LET r == EVP_DigestFinal_ex(c, buffer, rc)
         IN  [res |-> FromBoringssl(r.res), ctx |-> r.ctx, finalised |-> TRUE,
              buffer |-> r.buffer, slice |-> r.slice, native |-> r.native,
              overrun |-> r.overrun]

\* Variant of finalise without the check of self.finalised.
Hash_finalise_Unchecked(c, fin, buffer, rc) ==
    LET r == EVP_DigestFinal_ex(c, buffer, rc)
    IN  IF ~r.res.ok
        THEN [res |-> FromBoringssl(r.res), ctx |-> r.ctx, finalised |-> fin,
              buffer |-> r.buffer, slice |-> <<>>, native |-> r.native,
              overrun |-> r.overrun]
        ELSE [res |-> Ok, ctx |-> r.ctx, finalised |-> TRUE,
              buffer |-> r.buffer, slice |-> r.slice, native |-> r.native,
              overrun |-> r.overrun]

\* Variant of finalise that lets the buffer size check run before the check of
\* self.finalised.
Hash_finalise_SizeFirst(c, fin, buffer, rc) ==
    IF Len(buffer) < EVP_MD_CTX_size(c)
    THEN [res |-> BufferTooSmall(EVP_MD_CTX_size(c)), ctx |-> c, finalised |-> fin,
          buffer |-> buffer, slice |-> <<>>, native |-> FALSE, overrun |-> FALSE]
    ELSE IF fin
         THEN [res |-> Failure, ctx |-> c, finalised |-> fin, buffer |-> buffer,
               slice |-> <<>>, native |-> FALSE, overrun |-> FALSE]
         ELSE LET r == EVP_DigestFinal_ex(c, buffer, rc)
              IN  IF ~r.res.ok
                  THEN [res |-> FromBoringssl(r.res), ctx |-> r.ctx, finalised |-> fin,
                        buffer |-> r.buffer, slice |-> <<>>, native |-> r.native,
                        overrun |-> r.overrun]
                  ELSE [res |-> Ok, ctx |-> r.ctx, finalised |-> TRUE,
                        buffer |-> r.buffer, slice |-> r.slice, native |-> r.native,
                        overrun |-> r.overrun]

\* pub fn finalise(&mut self, buffer) -> Result<&[u8]>
Hash_finalise(c, fin, buffer, rc) ==
    IF fin
    THEN [res |-> Failure, ctx |-> c, finalised |-> fin, buffer |-> buffer,
          slice |-> <<>>, native |-> FALSE, overrun |-> FALSE]
    ELSE LET r == EVP_DigestFinal_ex(c, buffer, rc)
         IN  IF ~r.res.ok
             THEN [res |-> FromBoringssl(r.res), ctx |-> r.ctx, finalised |-> fin,
                   buffer |-> r.buffer, slice |-> <<>>, native |-> r.native,
                   overrun |-> r.overrun]
             ELSE [res |-> Ok, ctx |-> r.ctx, finalised |-> TRUE,
                   buffer |-> r.buffer, slice |-> r.slice, native |-> r.native,
                   overrun |-> r.overrun]

\* Variant of write that hands the bytes to the native layer first and looks
\* at self.finalised afterwards.
Hash_write_CheckAfter(c, fin, bytes, rc) ==
    LET r == EVP_DigestUpdate(c, bytes, rc)
    IN  [panic |-> IF fin THEN "cannot write into finalised Hash"
                   ELSE IF r.res.ok THEN "" ELSE "failed to update Hash",
         ctx |-> r.ctx, native |-> TRUE]

\* Variant of write without the check of self.finalised.
Hash_write_Unchecked(c, fin, bytes, rc) ==
    LET r == EVP_DigestUpdate(c, bytes, rc)
    IN  [panic |-> IF r.res.ok THEN "" ELSE "failed to update Hash",
         ctx |-> r.ctx, native |-> TRUE]

\* pub fn write(&mut self, bytes)
Hash_write(c, fin, bytes, rc) ==
    IF fin
    THEN [panic |-> "cannot write into finalised Hash", ctx |-> c, native |-> FALSE]
    ELSE LET r == EVP_DigestUpdate(c, bytes, rc)
         IN  [panic |-> IF r.res.ok THEN "" ELSE "failed to update Hash",
              ctx |-> r.ctx, native |-> TRUE]

\* pub fn output_size(&self) -> usize
Hash_output_size(c) == EVP_MD_CTX_size(c)

\* Variant of get that reserves the vector (Vec::with_capacity) without giving
\* it a length.
Hash_get_EmptyVec(c, fin, rc) ==
    LET result == FilledBuffer(0, GET_FILL)
        f == Hash_finalise(c, fin, result, rc)
        d == Drop_EVP_MD_CTX(f.ctx)
    IN  [res |-> f.res,
         panic |-> IF f.res.ok THEN "" ELSE "failed to finalise Hash",
         before |-> result,
         result |-> f.buffer,
         finalised |-> f.finalised,
         native |-> f.native,
         overrun |-> f.overrun,
         ctx |-> d.ctx,
         destroys |-> d.released]

\* pub fn get(mut self) -> Vec<u8>: self is dropped when get returns or unwinds.
Hash_get(c, fin, rc) ==
    LET result == FilledBuffer(Hash_output_size(c), GET_FILL)
        f == Hash_finalise(c, fin, result, rc)
        d == Drop_EVP_MD_CTX(f.ctx)
    IN  [res |-> f.res,
         panic |-> IF f.res.ok THEN "" ELSE "failed to finalise Hash",
         before |-> result,
         result |-> f.buffer,
         finalised |-> f.finalised,
         native |-> f.native,
         overrun |-> f.overrun,
         ctx |-> d.ctx,
         destroys |-> d.released]

(***************************************************************************)
(* The state machine: one Hash from Hash::new to the end of its scope.     *)
(***************************************************************************)
\* Lengths of the buffers a caller passes to finalise.
BufLens(size) ==
    {0, SHA256_SIZE, SHA512_SIZE}
        \cup {n \in 0..(size + MaxExtra) : n + MaxShort >= size}

NoCall ==
    [op |-> "none", res |-> Ok, panic |-> "", bytes |-> <<>>, before |-> <<>>,
     buf |-> <<>>, ret |-> <<>>, native |-> FALSE, overrun |-> FALSE,
     size |-> 0, rc |-> RC_OK, allocOk |-> TRUE]

\* What is kept of a call once another follows it.
Earlier(call) == [op |-> call.op, kind |-> call.res.kind]

\* 1 when a native update or finalize call reached a handle already finalised.
Late(c, native) == IF native /\ c.state = "final" THEN 1 ELSE 0

(***************************************************************************)
(* The CRC-32C side: build targets, threads and the dispatch slot.         *)
(***************************************************************************)
\* #[cfg(target_arch = ...)]: the targets with the sse42 module, and the rest.
X86Targets == {"x86", "x86_64"}
\* A build target with the answer its CPU gives to the SSE 4.2 probe.
Cpus ==
    {[target |-> t, sse42 |-> b] : t \in X86Targets, b \in BOOLEAN}
        \cup {[target |-> "other", sse42 |-> FALSE]}
\* The machine the Hash model runs on.
HostCpu == [target |-> "x86_64", sse42 |-> TRUE]

\* Threads calling into the dispatch layer.
Threads == {1, 2}

\* UPDATE_CRC32C initialised with the software backend on every target.
UPDATE_CRC32C_initial_Software(c) == "software::update_crc32c"

\* static UPDATE_CRC32C: AtomicPtr<FnCRC32> = AtomicPtr::new(...)
UPDATE_CRC32C_initial(c) ==
    IF c.target \in X86Targets THEN "detect_update_crc32c"
    ELSE "software::update_crc32c"

\* A thread outside any dispatch call.
IdleThread ==
    [pc |-> "idle", fn |-> "", crc_ptr |-> "", crc |-> "", state |-> {},
     data |-> [ptr |-> 0, bytes |-> <<>>], ret |-> {}, probed |-> 0, ran |-> ""]

\* No accumulator is in use; the accumulator whose register holds v.
NoAccumulator == [live |-> FALSE, val |-> {}]
Accumulator(v) == [live |-> TRUE, val |-> v]

\* No call on an accumulator yet.
NoCrcCall == [op |-> "none", data |-> <<>>, ret |-> {}, probed |-> 0, before |-> <<>>]

\* The functions that update a register over a buffer, and the record of a
\* function that has not been called: parts is the split align_to returned.
BackendFns ==
    {"software::update_crc32c", "sse42::update_crc32c_linear",
     "sse42::update_crc32c_unrolled", "sse42::update_crc32c"}
NoParts == [prefix |-> <<>>, words |-> <<>>, suffix |-> <<>>]
NotCalled == [done |-> FALSE, ran |-> "", parts |-> NoParts, ret |-> {}]

\* No Hash has been constructed yet.
HashUnborn ==
    /\ life = "unborn"
    /\ chosen = "none"
    /\ finalised = FALSE
    /\ ctx = NullCtx
    /\ allocs = 0
    /\ destroys = 0
    /\ written = <<>>
    /\ lateNative = 0
    /\ okFinals = 0
    /\ nops = 0
    /\ prev = Earlier(NoCall)
    /\ last = NoCall

\* Nothing of soter::crc has been called yet on the CPU c: UPDATE_CRC32C has
\* its static initializer.
CrcUnused(c) ==
    /\ cpu = c
    /\ probes = 0
    /\ hwRuns = 0
    /\ reg = NoAccumulator
    /\ crcFed = <<>>
    /\ crcOps = 0
    /\ feeds = 0
    /\ crcLast = NoCrcCall
    /\ resets = <<>>
    /\ slot = UPDATE_CRC32C_initial(c)
    /\ th = [t \in Threads |-> IdleThread]
    /\ stores = {}
    /\ detects = 0
    /\ calls = 0

\* No backend has been called yet on the buffer data from the register state.
BackendsUncalled(state, data) ==
    /\ input = data
    /\ state0 = state
    /\ outs = [f \in BackendFns |-> NotCalled]

\* The empty buffer, and the register of a new accumulator (all 32 bits set).
NoInput == [ptr |-> 0, bytes |-> <<>>]
NoBackendUse == BackendsUncalled(0..31, NoInput)

Init == HashUnborn /\ CrcUnused(HostCpu) /\ NoBackendUse

\* let mut hash = Hash::new(algorithm);
New ==
    \E alg \in Algorithm, allocOk \in BOOLEAN, initRc \in ReturnCodes :
        LET h == Hash_new(alg, allocOk, initRc)
        IN  /\ life = "unborn"
            /\ chosen' = alg
            /\ prev' = Earlier(last)
            /\ life' = IF h.panic = "" THEN "live" ELSE "gone"
            /\ ctx' = h.try.ctx
            /\ finalised' = h.try.finalised
            /\ allocs' = allocs + h.try.allocs
            /\ destroys' = destroys + h.try.destroys
            /\ last' = [NoCall EXCEPT !.op = "new", !.res = h.try.res,
                                      !.panic = h.panic, !.rc = initRc,
                                      !.allocOk = allocOk]
            /\ UNCHANGED crcVars
            /\ UNCHANGED <<written, lateNative, okFinals, nops>>

\* hash.write(bytes);
Write ==
    \E bytes \in ByteStrings(MaxWriteLen), rc \in ReturnCodes :
        LET w == Hash_write(ctx, finalised, bytes, rc)
        IN  /\ life = "live"
            /\ nops < MaxOps
            /\ Len(ctx.fed) + Len(bytes) <= MaxFed
            /\ nops' = nops + 1
            /\ ctx' = w.ctx
            /\ life' = IF w.panic = "" THEN "live" ELSE "unwinding"
            /\ written' = IF w.panic = "" THEN written \o bytes ELSE written
            /\ lateNative' = lateNative + Late(ctx, w.native)
            /\ last' = [NoCall EXCEPT !.op = "write", !.panic = w.panic,
                                      !.bytes = bytes, !.native = w.native,
                                      !.rc = rc]
            /\ prev' = Earlier(last)
            /\ UNCHANGED crcVars
            /\ UNCHANGED <<chosen, finalised, allocs, destroys, okFinals>>

\* hash.finalise(&mut buffer)
Finalise ==
    \E n \in BufLens(Hash_output_size(ctx)), fill \in Fills, rc \in ReturnCodes :
        LET buffer == FilledBuffer(n, fill)
            f == Hash_finalise(ctx, finalised, buffer, rc)
        IN  /\ life = "live"
            /\ nops < MaxOps
            /\ nops' = nops + 1
            /\ ctx' = f.ctx
            /\ finalised' = f.finalised
            /\ lateNative' = lateNative + Late(ctx, f.native)
            /\ last' = [NoCall EXCEPT !.op = "finalise", !.res = f.res,
                                      !.before = buffer, !.buf = f.buffer,
                                      !.ret = f.slice, !.native = f.native,
                                      !.overrun = f.overrun, !.rc = rc]
            /\ okFinals' = okFinals + (IF f.res.ok THEN 1 ELSE 0)
            /\ prev' = Earlier(last)
            /\ UNCHANGED crcVars
            /\ UNCHANGED <<life, chosen, allocs, destroys, written>>

\* hash.get()
Get ==
    \E rc \in ReturnCodes :
        LET g == Hash_get(ctx, finalised, rc)
        IN  /\ life = "live"
            /\ nops < MaxOps
            /\ nops' = nops + 1
            /\ ctx' = g.ctx
            /\ finalised' = g.finalised
            /\ life' = "gone"
            /\ destroys' = destroys + g.destroys
            /\ lateNative' = lateNative + Late(ctx, g.native)
            /\ last' = [NoCall EXCEPT !.op = "get", !.res = g.res,
                                      !.panic = g.panic, !.before = g.before,
                                      !.buf = g.result,
                                      !.ret = IF g.panic = "" THEN g.result ELSE <<>>,
                                      !.native = g.native, !.overrun = g.overrun,
                                      !.rc = rc]
            /\ okFinals' = okFinals + (IF g.res.ok THEN 1 ELSE 0)
            /\ prev' = Earlier(last)
            /\ UNCHANGED crcVars
            /\ UNCHANGED <<chosen, allocs, written>>

\* hash.output_size()
OutputSize ==
    /\ life = "live"
    /\ nops < MaxOps
    /\ nops' = nops + 1
    /\ last' = [NoCall EXCEPT !.op = "output_size", !.size = Hash_output_size(ctx)]
    /\ prev' = Earlier(last)
    /\ UNCHANGED crcVars
    /\ UNCHANGED <<life, chosen, finalised, ctx, allocs, destroys, written,
                   lateNative, okFinals>>

\* The owner's scope ends, or the panic of write unwinds through it: the Hash
\* and with it its EVP_MD_CTX are dropped.
Drop ==
    LET d == Drop_EVP_MD_CTX(ctx)
    IN  /\ life \in {"live", "unwinding"}
        /\ life' = "gone"
        /\ ctx' = d.ctx
        /\ destroys' = destroys + d.released
        /\ UNCHANGED crcVars
        /\ UNCHANGED <<chosen, finalised, allocs, written, lateNative, okFinals,
                       nops, prev, last>>

Next == New \/ Write \/ Finalise \/ Get \/ OutputSize \/ Drop

Spec == Init /\ [][Next]_vars

(***************************************************************************)
(* Properties of the digest context.                                       *)
(***************************************************************************)
\* A step that is a call of one of the named methods.
Calls(ops) == nops' # nops /\ last'.op \in ops

\* The digest of the bytes fed, as output_size() bytes.
DigestOf(alg, fed, size) == [i \in 1..size |-> DigestByte(alg, fed, i)]

\* C1: once a finalise call has returned Ok, every later finalise call on the
\* context (the one get makes included) returns an error of kind Failure; the
\* finalise call itself never panics.
C1_FinaliseOnce ==
    [][(okFinals >= 1 /\ Calls({"finalise", "get"}))
         => /\ last'.res = Failure
            /\ last'.op = "finalise" => last'.panic = ""]_vars

\* A second finalise, after one that succeeded, was answered with Failure.
C1_Witness ==
    /\ okFinals = 1
    /\ last.op = "finalise"
    /\ last.res = Failure
    /\ prev.op = "finalise"
    /\ prev.kind = "Ok"

\* What finalise on a Ready Hash does with a buffer shorter than output_size():
\* BufferTooSmall(output_size()), the flag and the handle as they were.
C2_ShortBufferRejected ==
    (Calls({"finalise"}) /\ ~finalised /\ Len(last'.before) < Hash_output_size(ctx))
        => /\ last'.res = BufferTooSmall(Hash_output_size(ctx))
           /\ ~finalised'
           /\ ctx' = ctx
           /\ life' = "live"

\* A finalise with a buffer of at least output_size() bytes that follows a
\* finalise answered with BufferTooSmall.
C2_RetryStep ==
    /\ last.op = "finalise"
    /\ last.res.kind = "BufferTooSmall"
    /\ Calls({"finalise"})
    /\ Len(last'.before) >= Hash_output_size(ctx)

C3_WriteAfterFinalisePanics ==
    [][(okFinals >= 1 /\ Calls({"write"}))
         => /\ last'.panic = "cannot write into finalised Hash"
            /\ life' = "unwinding"
            /\ ~last'.native
            /\ ctx' = ctx
            /\ written' = written]_vars

\* A write of at least one byte was made after a successful finalise.
C3_Witness ==
    /\ okFinals = 1
    /\ last.op = "write"
    /\ last.bytes # <<>>
    /\ last.panic # ""

\* C4: the finalised flag goes from false to true exactly in a finalise call
\* that returns Ok (called directly or by get): a finalise call that returns an
\* error on a Ready Hash leaves the flag false, one that returns Ok sets it,
\* and no other step changes the flag.
C4_FlagSetOnlyByOkFinalise ==
    [][/\ finalised' # finalised
            => (~finalised /\ Calls({"finalise", "get"}) /\ last'.res = Ok)
       /\ (Calls({"finalise", "get"}) /\ ~finalised /\ last'.res = Ok)
            => finalised'
       /\ (Calls({"finalise", "get"}) /\ ~finalised /\ last'.res # Ok)
            => (~finalised' /\ last'.res.kind \in {"BufferTooSmall", "Failure"})]_vars

\* The native finalize call reported failure, and the Hash is still Ready.
C4_Witness ==
    /\ last.op = "finalise"
    /\ last.native
    /\ last.res = Failure
    /\ life = "live"
    /\ ~finalised

\* C5: Finalized is terminal: from a state where finalised is true no step
\* makes it false, every write panics without reaching the native handle, and
\* no finalise (called directly or by get) returns Ok.
C5_FinalizedIsTerminal ==
    [][finalised
         => /\ finalised'
            /\ Calls({"write"}) => (last'.panic # "" /\ ~last'.native)
            /\ Calls({"finalise", "get"}) => last'.res # Ok]_vars

\* get was called on a Finalized Hash: the flag stayed true to the end.
C5_Witness ==
    /\ finalised
    /\ last.op = "get"
    /\ last.res = Failure
    /\ prev.op = "finalise"
    /\ prev.kind = "Ok"

\* C6: a successful finalise with a buffer of n >= output_size() bytes writes
\* output_size() bytes at the start of the buffer, returns buffer[0..output_size()],
\* and leaves buffer[output_size()..n] as it was.
C6_FinaliseFrame ==
    (last.op = "finalise" /\ last.res = Ok)
        => LET size == Hash_output_size(ctx)
           IN  /\ Len(last.before) >= size
               /\ Len(last.buf) = Len(last.before)
               /\ Len(last.ret) = size
               /\ last.ret = SubSeq(last.buf, 1, size)
               /\ \A i \in 1..size : last.buf[i].who # "caller"
               /\ \A i \in (size + 1)..Len(last.buf) : last.buf[i] = last.before[i]
               /\ ~last.overrun

\* A finalise succeeded with a buffer longer than output_size().
C6_Witness ==
    /\ last.op = "finalise"
    /\ last.res = Ok
    /\ Len(last.before) > Hash_output_size(ctx)
    /\ last.before[Len(last.before)] = CallerByte(237)

\* C7: a native handle that was allocated is released exactly once: none is
\* released while the Hash lives, and once the Hash is gone (its scope ended,
\* get returned or panicked, a panic of write unwound, or construction failed)
\* as many handles were released as were allocated, at most one.
C7_ReleasedExactlyOnce ==
    /\ allocs <= 1
    /\ destroys <= allocs
    /\ life \in {"live", "unwinding"} => (allocs = 1 /\ destroys = 0)
    /\ life = "gone" => destroys = allocs
    /\ (ctx.state = "freed") = (destroys = 1)

\* Construction failed in native initialization after the handle was allocated,
\* and the handle was released.
C7_Witness ==
    /\ life = "gone"
    /\ last.op = "new"
    /\ last.allocOk
    /\ last.rc # RC_OK
    /\ allocs = 1
    /\ destroys = 1

\* The native layer could not allocate the handle or could not initialize it.
C8_NativeFailed == last.op = "new" /\ (~last.allocOk \/ last.rc # RC_OK)

\* C8 as stated: when the native layer cannot allocate or initialize the
\* handle, Hash::new fails with an error of kind Failure returned to the caller.
C8_Original ==
    C8_NativeFailed => (last.res = Failure /\ last.panic = "")

\* C8 as amended: when the native layer cannot allocate or initialize the
\* handle, try_new fails with an error of kind Failure, which Hash::new does
\* not return: it panics with "failed to make a new Hash", and no Hash exists.
C8_NewPanicsOnFailure ==
    /\ C8_NativeFailed
         => /\ last.res = Failure
            /\ last.panic = "failed to make a new Hash"
            /\ life = "gone"
    /\ (last.op = "new" /\ ~C8_NativeFailed)
         => (last.res = Ok /\ last.panic = "" /\ life # "unborn")

\* The native layer could not allocate the handle.
C8_Witness ==
    /\ last.op = "new"
    /\ ~last.allocOk
    /\ last.panic # ""
    /\ allocs = 0

\* C9: a finalise that fails with BufferTooSmall makes no native call and
\* leaves the handle as it was; while the Hash lives the handle has received
\* exactly the bytes of the write calls, in order; and the digest a finalise
\* produces from a handle on which no native call failed is the digest of all
\* bytes written.
C9_NoBytesLost ==
    /\ [](life = "live" => ctx.fed = written)
    /\ [][/\ (Calls({"finalise"}) /\ last'.res.kind = "BufferTooSmall")
               => (~last'.native /\ ctx' = ctx /\ written' = written)
          /\ (Calls({"finalise", "get"}) /\ last'.res = Ok /\ ctx.state = "init")
               => last'.ret = DigestOf(chosen, written, Len(last'.ret))]_vars

\* Bytes were written, a finalise failed with BufferTooSmall, and the finalise
\* that followed produced the digest of those bytes.
C9_Witness ==
    /\ last.op = "finalise"
    /\ last.res = Ok
    /\ prev.op = "finalise"
    /\ prev.kind = "BufferTooSmall"
    /\ Len(written) >= 2
    /\ last.ret[1] = DigestByte(chosen, written, 1)

\* C10: output_size() returns 32 for SHA256 and 64 for SHA512 in every state of
\* the context, and the call changes neither the flag nor the native handle.
C10_OutputSizeFixed ==
    /\ []((last.op = "output_size")
            => last.size = (IF chosen = "SHA256" THEN 32 ELSE 64))
    /\ [][Calls({"output_size"})
            => (finalised' = finalised /\ ctx' = ctx /\ life' = life)]_vars

\* output_size() was called on a Finalized SHA512 context.
C10_Witness ==
    /\ last.op = "output_size"
    /\ last.size = 64
    /\ chosen = "SHA512"
    /\ finalised
    /\ life = "live"

\* C11: get on a Ready Hash hands finalise a vector of exactly output_size()
\* bytes, so it never fails with BufferTooSmall, and what it returns (it
\* returns whenever the native finalize reports success) is that vector,
\* output_size() bytes long; get on a Hash already finalised by a successful
\* finalise panics with "failed to finalise Hash" and returns nothing.
C11_GetSizesItsVector ==
    [][Calls({"get"})
         => /\ ~finalised
                 => /\ Len(last'.before) = Hash_output_size(ctx)
                    /\ last'.res.kind # "BufferTooSmall"
                    /\ last'.rc = RC_OK
                         => /\ last'.res = Ok
                            /\ last'.panic = ""
                            /\ Len(last'.ret) = Hash_output_size(ctx)
                            /\ last'.ret = last'.buf
                    /\ last'.panic # "" => last'.panic = "failed to finalise Hash"
            /\ okFinals >= 1
                 => /\ last'.panic = "failed to finalise Hash"
                    /\ last'.res = Failure
                    /\ last'.ret = <<>>]_vars

\* get returned the digest of the bytes written to a Ready SHA256 Hash.
C11_Witness ==
    /\ last.op = "get"
    /\ last.panic = ""
    /\ okFinals = 1
    /\ chosen = "SHA256"
    /\ Len(last.ret) = 32
    /\ written # <<>>
    /\ last.ret[32] = DigestByte("SHA256", written, 32)

\* C25: no native update or finalize call reaches the digest handle after a
\* native finalize on that handle has succeeded: from then on the finalised
\* flag is set, and write, finalise and get are all turned away by it before
\* the native layer is called, whatever calls came before.
C25_NoNativeCallAfterFinalize ==
    /\ [](/\ lateNative = 0
          /\ life = "live" => (finalised <=> ctx.state = "final"))
    /\ [][ctx.state = "final" /\ Calls({"write", "finalise", "get"})
             => /\ finalised
                /\ ~last'.native
                /\ last'.op = "write" => last'.panic = "cannot write into finalised Hash"
                /\ last'.op \in {"finalise", "get"} => last'.res = Failure
                /\ last'.op \in {"write", "finalise"} => ctx' = ctx]_vars

\* After a finalise that returned Ok, a second finalise and then a write were
\* both turned away without a native call.
C25_Witness ==
    /\ okFinals = 1
    /\ nops = 3
    /\ ctx.state = "final"
    /\ prev.op = "finalise"
    /\ prev.kind = "Failure"
    /\ last.op = "write"
    /\ last.bytes # <<>>
    /\ last.panic = "cannot write into finalised Hash"
    /\ ~last.native
    /\ lateNative = 0

\* C26: in finalise the check of the finalised flag comes before the check of
\* the buffer size: finalise on a Finalized Hash returns Failure whatever the
\* length of the buffer, also one shorter than output_size(), and
\* BufferTooSmall is returned only by a Hash that is Ready and stays Ready.
C26_FinalisedCheckPrecedesSizeCheck ==
    [][/\ finalised /\ Calls({"finalise"}) => last'.res = Failure
       /\ Calls({"finalise", "get"}) /\ last'.res.kind = "BufferTooSmall"
            => /\ ~finalised
               /\ ~finalised'
               /\ last'.op = "finalise"
               /\ Len(last'.before) < Hash_output_size(ctx)]_vars

\* finalise with a buffer one byte short of output_size() was called on a
\* Hash that an earlier finalise had finalised: it returned Failure.
C26_Witness ==
    /\ finalised
    /\ prev.op = "finalise"
    /\ prev.kind = "Ok"
    /\ last.op = "finalise"
    /\ Len(last.before) = Hash_output_size(ctx) - 1
    /\ last.res = Failure
    /\ ~last.native

(***************************************************************************)
(* CRC-32C (soter/src/crc).  A u32 is the set of the positions (0 = least  *)
(* significant) of its one bits, a u64 likewise over 0..63; a byte of a    *)
(* buffer is a number 0..255.                                              *)
(***************************************************************************)
\* The powers of two up to 2^8, POW2[n + 1] = 2^n.
RECURSIVE Pow2(_)
Pow2(n) == IF n = 0 THEN 1 ELSE 2 * Pow2(n - 1)
POW2 == [n \in 1..9 |-> Pow2(n - 1)]

\* Whether bit i of the byte n is set.
BitIsSet(n, i) == (n \div POW2[i + 1]) % 2 = 1

\* The one bits of the w-bit number n (w at most 8).
BitsOf(n, w) == {i \in 0..(w - 1) : BitIsSet(n, i)}

\* The value written as the hexadecimal digits ds, most significant first.
FromHex(ds) ==
    {i \in 0..(4 * Len(ds) - 1) : BitIsSet(ds[Len(ds) - (i \div 4)], i % 4)}

\* a ^ b
Xor(a, b) == {i \in 0..31 : (i \in a) # (i \in b)}
\* a >> n
Shr(a, n) == {i - n : i \in {j \in a : j >= n}}
\* a & 0xFF
LowByte(a) == {i \in a : i < 8}
\* !a on u32
Not32(a) == {i \in 0..31 : i \notin a}
\* u32::swap_bytes
swap_bytes(a) == {8 * (3 - (i \div 8)) + (i % 8) : i \in a}
\* u32 as u64 done as a sign extension (u32 as i32 as i64 as u64).
AsU64_SignExtend(a) ==
    {i \in 0..63 : IF i < 32 THEN i \in a ELSE 31 \in a}
\* u32 as u64 (zero extension: bits 32..63 are clear), and u64 as u32 (the
\* low 32 bits).
AsU64(a) == {i \in 0..63 : i < 32 /\ i \in a}
AsU32(a) == {i \in a : i < 32}

\* pub const INIT_CRC32: u32 = 0xFFFFFFFF
INIT_CRC32 == FromHex(<<15, 15, 15, 15, 15, 15, 15, 15>>)

\* The Castagnoli polynomial 0x11EDC6F41 without its top bit, and reflected
\* (0x82F63B78), as a reflected CRC uses it.
CASTAGNOLI == FromHex(<<1, 14, 13, 12, 6, 15, 4, 1>>)
CASTAGNOLI_REFLECTED == {31 - i : i \in CASTAGNOLI}

\* One step of reflected polynomial division: shift one bit out, and subtract
\* the polynomial when the bit shifted out differs from the data bit.
DivStep(crc, bit) ==
    IF (0 \in crc) # bit
    THEN {i \in 0..31 : ((i + 1) \in crc) # (i \in CASTAGNOLI_REFLECTED)}
    ELSE {i \in 0..30 : (i + 1) \in crc}

(***************************************************************************)
(* crc/platform/software.rs: the portable backend, byte by byte through    *)
(* the table of the 256 remainders.                                        *)
(***************************************************************************)
\* Entry i of the table: i divided eight times.
RECURSIVE TableSteps(_, _)
TableSteps(c, n) == IF n = 0 THEN c ELSE TableSteps(DivStep(c, FALSE), n - 1)
RECURSIVE SumBits(_, _)
SumBits(a, i) ==
    IF i = 8 THEN 0 ELSE (IF i \in a THEN POW2[i + 1] ELSE 0) + SumBits(a, i + 1)
ToNat(a) == SumBits(a, 0)
CRC32C_TABLE == [i \in 0..255 |-> TableSteps(BitsOf(i, 8), 8)]

\* software::update_crc32c(state, data): for each byte, the table entry of the
\* low byte of state ^ byte, xored onto state >> 8.
software_step(state, byte) ==
    Xor(CRC32C_TABLE[ToNat(LowByte(Xor(state, BitsOf(byte, 8))))], Shr(state, 8))

RECURSIVE software_fold(_, _, _)
software_fold(state, bytes, k) ==
    IF k > Len(bytes) THEN state
    ELSE CHOOSE r \in {software_fold(s, bytes, k + 1) :
                          s \in {software_step(state, bytes[k])}} : TRUE

software_update_crc32c(state, data) == software_fold(state, data.bytes, 1)

(***************************************************************************)
(* The crc32 instruction of SSE 4.2 (std::arch's _mm_crc32_u8/u32/u64):    *)
(* the w data bits are divided in, least significant first.                *)
(***************************************************************************)
RECURSIVE crc32_instruction(_, _, _, _)
crc32_instruction(crc, v, k, w) ==
    IF k = w THEN crc
    ELSE CHOOSE r \in {crc32_instruction(c, v, k + 1, w) : c \in {DivStep(crc, k \in v)}} : TRUE

\* crc32 r32, r8
mm_crc32_u8(crc, byte) == crc32_instruction(crc, BitsOf(byte, 8), 0, 8)
\* crc32 r32, r32
mm_crc32_u32(crc, dword) == crc32_instruction(crc, dword, 0, 32)
\* crc32 r64, r64 that takes in the low half of the quadword only.
mm_crc32_u64_LowDword(crc, qword) == AsU64(crc32_instruction(AsU32(crc), qword, 0, 32))

\* crc32 r64, r64: works on the low 32 bits of crc, the high 32 bits of the
\* result are zero.
mm_crc32_u64(crc, qword) == AsU64(crc32_instruction(AsU32(crc), qword, 0, 64))

(***************************************************************************)
(* crc/platform/sse42.rs.  A data buffer (&[u8]) is a record: ptr is its   *)
(* address modulo the widest machine word, bytes its content.              *)
(***************************************************************************)
\* The machine word read from the bytes bs of an aligned slice (little endian).
WordOf(bs) ==
    {i \in 0..(8 * Len(bs) - 1) : BitIsSet(bs[(i \div 8) + 1], i % 8)}

\* Variant of align_to whose suffix starts at the last whole word, so that the
\* bytes of that word are in the words and in the suffix.
align_to_SuffixFromLastWord(data, w) ==
    LET n == Len(data.bytes)
        p == (w - (data.ptr % w)) % w
        m == IF p > n THEN 0 ELSE (n - p) \div w
        k == IF m > 0 THEN m - 1 ELSE 0
    IN  IF p > n
        THEN [prefix |-> data.bytes, words |-> <<>>, suffix |-> <<>>]
        ELSE [prefix |-> SubSeq(data.bytes, 1, p),
              words  |-> [i \in 1..m |->
                            WordOf(SubSeq(data.bytes, p + w * (i - 1) + 1, p + w * i))],
              suffix |-> SubSeq(data.bytes, p + w * k + 1, n)]

\* <[u8]>::align_to::<word of w bytes>: the bytes before the first aligned
\* address, the aligned words, and the bytes left after the last whole word.
align_to(data, w) ==
    LET n == Len(data.bytes)
        p == (w - (data.ptr % w)) % w
        m == IF p > n THEN 0 ELSE (n - p) \div w
    IN  IF p > n
        THEN [prefix |-> data.bytes, words |-> <<>>, suffix |-> <<>>]
        ELSE [prefix |-> SubSeq(data.bytes, 1, p),
              words  |-> [i \in 1..m |->
                            WordOf(SubSeq(data.bytes, p + w * (i - 1) + 1, p + w * i))],
              suffix |-> SubSeq(data.bytes, p + w * m + 1, n)]

\* for byte in bytes { state = _mm_crc32_u8(state, *byte); }
RECURSIVE crc32_bytes(_, _, _)
crc32_bytes(state, bytes, k) ==
    IF k > Len(bytes) THEN state
    ELSE CHOOSE r \in {crc32_bytes(s, bytes, k + 1) :
                          s \in {mm_crc32_u8(state, bytes[k])}} : TRUE

\* for dword in dwords { state = _mm_crc32_u32(state, *dword); }
RECURSIVE crc32_dwords(_, _, _)
crc32_dwords(state, dwords, k) ==
    IF k > Len(dwords) THEN state
    ELSE CHOOSE r \in {crc32_dwords(s, dwords, k + 1) :
                          s \in {mm_crc32_u32(state, dwords[k])}} : TRUE

\* for qword in qwords { state64 = _mm_crc32_u64(state64, *qword); }
RECURSIVE crc32_qwords(_, _, _)
crc32_qwords(state64, qwords, k) ==
    IF k > Len(qwords) THEN state64
    ELSE CHOOSE r \in {crc32_qwords(s, qwords, k + 1) :
                          s \in {mm_crc32_u64(state64, qwords[k])}} : TRUE

\* update_crc32c_linear written as a loop that tests its counter after the
\* first step, so that an empty buffer costs one step on a zero byte.
update_crc32c_linear_TestAfterStep(state, data) ==
    IF data.bytes = <<>> THEN mm_crc32_u8(state, 0)
    ELSE crc32_bytes(state, data.bytes, 1)

\* sse42::update_crc32c_linear
update_crc32c_linear(state, data) == crc32_bytes(state, data.bytes, 1)

\* The bytes a machine word of w bytes has in memory (little endian), and the
\* bytes of a slice of such words.
BytesOfWord(word, w) ==
    [k \in 1..w |-> ToNat({i - 8 * (k - 1) : i \in {j \in word : j \div 8 = k - 1}})]
BytesOfWords(words, w) ==
    [k \in 1..(w * Len(words)) |-> BytesOfWord(words[((k - 1) \div w) + 1], w)[((k - 1) % w) + 1]]

\* sse42::update_crc32c_unrolled, #[cfg(target_arch = "x86")]
update_crc32c_unrolled_x86(state, data) ==
    LET parts  == align_to(data, DWORD_SIZE)
        state1 == crc32_bytes(state, parts.prefix, 1)
        state2 == crc32_dwords(state1, parts.words, 1)
    IN  crc32_bytes(state2, parts.suffix, 1)

\* update_crc32c_unrolled that stops after the aligned words.
update_crc32c_unrolled_x86_64_NoSuffix(state, data) ==
    LET parts   == align_to(data, QWORD_SIZE)
        state1  == crc32_bytes(state, parts.prefix, 1)
        state64 == crc32_qwords(AsU64(state1), parts.words, 1)
    IN  AsU32(state64)

\* sse42::update_crc32c_unrolled, #[cfg(target_arch = "x86_64")]
update_crc32c_unrolled_x86_64(state, data) ==
    LET parts   == align_to(data, QWORD_SIZE)
        state1  == crc32_bytes(state, parts.prefix, 1)
        state64 == crc32_qwords(AsU64(state1), parts.words, 1)
    IN  crc32_bytes(AsU32(state64), parts.suffix, 1)

update_crc32c_unrolled(target, state, data) ==
    IF target = "x86" THEN update_crc32c_unrolled_x86(state, data)
    ELSE update_crc32c_unrolled_x86_64(state, data)

\* size_of of the machine word update_crc32c_unrolled aligns to on the target.
WordSize(target) == IF target = "x86" THEN DWORD_SIZE ELSE QWORD_SIZE

\* The branch sse42::update_crc32c takes with a strict comparison.
sse42_strategy_Strict(data) ==
    IF Len(data.bytes) > CRC32C_UNROLL_THRESHOLD
    THEN "update_crc32c_unrolled" ELSE "update_crc32c_linear"

\* if data.len() >= CRC32C_UNROLL_THRESHOLD: the branch sse42::update_crc32c takes.
sse42_strategy(data) ==
    IF Len(data.bytes) >= CRC32C_UNROLL_THRESHOLD
    THEN "update_crc32c_unrolled" ELSE "update_crc32c_linear"

\* sse42::update_crc32c
sse42_update_crc32c(target, state, data) ==
    IF sse42_strategy(data) = "update_crc32c_unrolled"
    THEN update_crc32c_unrolled(target, state, data)
    ELSE update_crc32c_linear(state, data)

(***************************************************************************)
(* crc/platform/mod.rs: the dispatch layer.  Beside its result a function  *)
(* reports how often it evaluated the probe and which backend it ran.      *)
(***************************************************************************)
\* is_x86_feature_detected!("sse4.2")
is_x86_feature_detected(c) == c.sse42

\* Calling through a FnCRC32 pointer to one of the two backends.
CallBackend(crc, c, state, data) ==
    IF crc = "sse42::update_crc32c"
    THEN sse42_update_crc32c(c.target, state, data)
    ELSE software_update_crc32c(state, data)

\* The backends detect_update_crc32c settles on without asking the CPU.
detect_choice_AlwaysSse42(c) == "sse42::update_crc32c"
detect_choice_AlwaysSoftware(c) == "software::update_crc32c"

\* A store to UPDATE_CRC32C that is lost.
UPDATE_CRC32C_store_Lost(held, crc) == held

\* UPDATE_CRC32C.store(crc as *mut FnCRC32, Ordering::Relaxed): what the slot
\* holds afterwards.
UPDATE_CRC32C_store(held, crc) == crc

\* let crc = if is_x86_feature_detected!("sse4.2") { sse42::update_crc32c }
\*           else { software::update_crc32c };
detect_choice(c) ==
    IF is_x86_feature_detected(c) THEN "sse42::update_crc32c"
    ELSE "software::update_crc32c"

\* update_crc32c_runtime that calls the hardware backend of an x86 target
\* without asking the CPU.
update_crc32c_runtime_Unchecked(c, state, data) ==
    IF c.target \in X86Targets /\ c.sse42
    THEN [ret |-> sse42_update_crc32c(c.target, state, data), probed |-> 0,
          ran |-> "sse42::update_crc32c"]
    ELSE [ret |-> software_update_crc32c(state, data), probed |-> 0,
          ran |-> "software::update_crc32c"]

\* update_crc32c_runtime that never asks the CPU and stays in software.
update_crc32c_runtime_NoProbe(c, state, data) ==
    [ret |-> software_update_crc32c(state, data), probed |-> 0,
     ran |-> "software::update_crc32c"]

\* pub fn update_crc32c_runtime(state: u32, data: &[u8]) -> u32
update_crc32c_runtime(c, state, data) ==
    IF c.target \in X86Targets
    THEN IF is_x86_feature_detected(c)
         THEN [ret |-> sse42_update_crc32c(c.target, state, data), probed |-> 1,
               ran |-> "sse42::update_crc32c"]
         ELSE [ret |-> software_update_crc32c(state, data), probed |-> 1,
               ran |-> "software::update_crc32c"]
    ELSE [ret |-> software_update_crc32c(state, data), probed |-> 0,
          ran |-> "software::update_crc32c"]

(***************************************************************************)
(* crc/mod.rs: the accumulator CRC32C(u32).                                *)
(***************************************************************************)
\* CRC32C::new that starts from a zero register.
CRC32C_new_Zero == {}

\* pub fn new() -> CRC32C
CRC32C_new == INIT_CRC32

\* CRC32C::update that forgets the register and starts each call from INIT.
CRC32C_update_Restart(c, self, data) == update_crc32c_runtime(c, INIT_CRC32, data)

\* pub fn update(&mut self, data): the new self.0 is the ret of the record.
CRC32C_update(c, self, data) == update_crc32c_runtime(c, self, data)

\* CRC32C::result without the byte swap.
CRC32C_result_NoSwap(self) == Not32(self)

\* fn result(&self) -> u32
CRC32C_result(self) == swap_bytes(Not32(self))

\* pub fn complete(self) -> u32
CRC32C_complete(self) == CRC32C_result(self)

\* CRC32C::reset that leaves the register as it is.
CRC32C_reset_KeepsRegister(self) == [ret |-> CRC32C_result(self), self |-> self]

\* pub fn reset(&mut self) -> u32
CRC32C_reset(self) == [ret |-> CRC32C_result(self), self |-> INIT_CRC32]

\* pub fn checksum(data) -> u32
CRC32C_checksum(c, data) ==
    LET crc32 == CRC32C_new
        upd   == CRC32C_update(c, crc32, data)
    IN  [ret |-> CRC32C_complete(upd.ret), probed |-> upd.probed, ran |-> upd.ran]

(***************************************************************************)
(* The accumulator as a state machine: one CRC32C at a time is in use.     *)
(***************************************************************************)
\* "123456789", the input of the reference vector.
ASCII_123456789 == <<49, 50, 51, 52, 53, 54, 55, 56, 57>>
\* Contents of the buffers passed in: empty, one byte, the reference input,
\* and 17 bytes, past the unroll threshold.
Contents ==
    {<<>>, <<97>>, ASCII_123456789,
     ASCII_123456789 \o <<97, 98, 99, 100, 101, 102, 103, 104>>}
\* Addresses of the buffers, modulo 8.
Ptrs == {0, 3}
Buffers == {[ptr |-> a, bytes |-> bs] : a \in Ptrs, bs \in Contents}

HwRun(ran) == IF ran = "sse42::update_crc32c" THEN 1 ELSE 0

\* Only the accumulator side moves.
CrcFrame == UNCHANGED <<hashVars, cpu, slot, th, stores, detects, calls, input, state0, outs>>

\* let mut crc = CRC32C::new();
CrcNew ==
    /\ ~reg.live
    /\ crcOps < MaxCrcOps
    /\ crcOps' = crcOps + 1
    /\ reg' = Accumulator(CRC32C_new)
    /\ crcFed' = <<>>
    /\ crcLast' = [NoCrcCall EXCEPT !.op = "new"]
    /\ UNCHANGED <<probes, hwRuns, resets, feeds>>
    /\ CrcFrame

\* crc.update(data);
CrcUpdate ==
    \E data \in Buffers :
        LET upd == CRC32C_update(cpu, reg.val, data)
        IN  /\ reg.live
            /\ crcOps < MaxCrcOps
            /\ feeds < MaxFeeds
            /\ crcOps' = crcOps + 1
            /\ feeds' = feeds + 1
            /\ reg' = Accumulator(upd.ret)
            /\ crcFed' = crcFed \o data.bytes
            /\ probes' = probes + upd.probed
            /\ hwRuns' = hwRuns + HwRun(upd.ran)
            /\ crcLast' = [NoCrcCall EXCEPT !.op = "update", !.data = data.bytes,
                                            !.probed = upd.probed, !.before = crcFed]
            /\ UNCHANGED resets
            /\ CrcFrame

\* crc.complete(): consumes the accumulator.
CrcComplete ==
    /\ reg.live
    /\ crcOps < MaxCrcOps
    /\ crcOps' = crcOps + 1
    /\ reg' = NoAccumulator
    /\ crcLast' = [NoCrcCall EXCEPT !.op = "complete", !.ret = CRC32C_complete(reg.val),
                                    !.before = crcFed]
    /\ UNCHANGED <<crcFed, probes, hwRuns, resets, feeds>>
    /\ CrcFrame

\* crc.reset()
CrcReset ==
    LET r == CRC32C_reset(reg.val)
    IN  /\ reg.live
        /\ crcOps < MaxCrcOps
        /\ crcOps' = crcOps + 1
        /\ reg' = Accumulator(r.self)
        /\ crcFed' = <<>>
        /\ crcLast' = [NoCrcCall EXCEPT !.op = "reset", !.ret = r.ret,
                                        !.before = crcFed]
        /\ resets' = <<[fed |-> crcFed, ret |-> r.ret]>>
                        \o (IF resets = <<>> THEN <<>> ELSE <<resets[1]>>)
        /\ UNCHANGED <<probes, hwRuns, feeds>>
        /\ CrcFrame

\* CRC32C::checksum(data): works on an accumulator of its own.
CrcChecksum ==
    \E data \in Buffers :
        LET sum == CRC32C_checksum(cpu, data)
        IN  /\ crcOps < MaxCrcOps
            /\ feeds < MaxFeeds
            /\ crcOps' = crcOps + 1
            /\ feeds' = feeds + 1
            /\ probes' = probes + sum.probed
            /\ hwRuns' = hwRuns + HwRun(sum.ran)
            /\ crcLast' = [NoCrcCall EXCEPT !.op = "checksum", !.data = data.bytes,
                                            !.ret = sum.ret, !.probed = sum.probed,
                                            !.before = crcFed]
            /\ UNCHANGED <<reg, crcFed, resets>>
            /\ CrcFrame

InitCrc == HashUnborn /\ NoBackendUse /\ \E c \in Cpus : CrcUnused(c)

NextCrc == CrcNew \/ CrcUpdate \/ CrcComplete \/ CrcReset \/ CrcChecksum

SpecCrc == InitCrc /\ [][NextCrc]_vars

(***************************************************************************)
(* Claims about the accumulator, under SpecCrc.                            *)
(***************************************************************************)
\* The step is a call of one of the operations ops on an accumulator.
CrcCalls(ops) == crcOps' # crcOps /\ crcLast'.op \in ops

\* The register of a new accumulator fed bytes in a single update call, from a
\* buffer at address a.
OneUpdate(bytes, a) == CRC32C_update(cpu, CRC32C_new, [ptr |-> a, bytes |-> bytes]).ret

\* C12: however the bytes fed since new() were cut into update calls (empty
\* chunks included), the register is the one a new accumulator holds after a
\* single update with all of them, and complete() returns the value it would
\* return there.
C12_StreamingInvariance ==
    /\ [](reg.live => \A a \in Ptrs : reg.val = OneUpdate(crcFed, a))
    /\ [][CrcCalls({"complete"})
            => \A a \in Ptrs :
                   crcLast'.ret = CRC32C_complete(OneUpdate(crcFed, a))]_vars

\* complete() after "123456789" was fed twice, in two chunks: 18 bytes, which a
\* single update on SSE 4.2 takes through the unrolled loop.
C12_Witness ==
    /\ crcLast.op = "complete"
    /\ crcLast.before = ASCII_123456789 \o ASCII_123456789
    /\ feeds = 2
    /\ cpu = [target |-> "x86_64", sse42 |-> TRUE]

\* C13: reset() returns what complete() would return for the bytes fed since
\* new() or the reset() before, leaves an accumulator equal to a new one, and
\* returns the value of the reset() before when the same bytes were fed.
C13_ResetRestarts ==
    [][CrcCalls({"reset"})
        => /\ crcLast'.ret = CRC32C_complete(reg.val)
           /\ \A a \in Ptrs : crcLast'.ret = CRC32C_complete(OneUpdate(crcFed, a))
           /\ reg' = Accumulator(INIT_CRC32)
           /\ reg' = Accumulator(CRC32C_new)
           /\ crcFed' = <<>>
           /\ (resets # <<>> /\ resets[1].fed = crcFed) => crcLast'.ret = resets[1].ret]_vars

\* Two reset() calls, "123456789" fed before each, gave the same value.
C13_Witness ==
    /\ crcLast.op = "reset"
    /\ Len(resets) = 2
    /\ resets[1].fed = ASCII_123456789
    /\ resets[2].fed = ASCII_123456789
    /\ resets[1].ret = resets[2].ret
    /\ reg = Accumulator(INIT_CRC32)

\* The u32 0 and the reference value 0x839206E3.
ZERO == FromHex(<<0>>)
CHECK_123456789 == FromHex(<<8, 3, 9, 2, 0, 6, 14, 3>>)

\* C14: checksum(data) is what complete() returns on a new accumulator after
\* update(data), also when that accumulator is one the caller drives; for the
\* empty input it is 0, the finalization of the untouched INIT register.
C14_ChecksumIsNewUpdateComplete ==
    [][/\ CrcCalls({"checksum"})
            => /\ \A data \in {crcLast'.data}, a \in Ptrs :
                      crcLast'.ret = CRC32C_complete(OneUpdate(data, a))
               /\ crcLast'.data = <<>>
                    => /\ crcLast'.ret = ZERO
                       /\ crcLast'.ret = swap_bytes(Not32(INIT_CRC32))
       /\ (CrcCalls({"complete"}) /\ crcLast.op = "checksum" /\ crcLast.data = crcFed)
            => crcLast'.ret = crcLast.ret
       /\ (CrcCalls({"complete"}) /\ crcFed = <<>>) => crcLast'.ret = ZERO]_vars

\* checksum("") returned 0.
C14_Witness ==
    /\ crcLast.op = "checksum"
    /\ crcLast.data = <<>>
    /\ crcLast.ret = ZERO
    /\ reg.live

\* C15: checksum("123456789") is 0x839206E3, on every target and with either
\* answer of the probe: the reflected Castagnoli update from INIT, complemented
\* and byte-swapped.
C15_ReferenceVector ==
    [][(CrcCalls({"checksum"}) /\ crcLast'.data = ASCII_123456789)
        => /\ crcLast'.ret = CHECK_123456789
           /\ \A a \in Ptrs :
                  CHECK_123456789 = swap_bytes(Not32(OneUpdate(ASCII_123456789, a)))]_vars

\* checksum("123456789") was computed with the crc32 instruction.
C15_Witness ==
    /\ crcLast.op = "checksum"
    /\ crcLast.data = ASCII_123456789
    /\ crcLast.ret = CHECK_123456789
    /\ cpu.sse42
    /\ hwRuns >= 1

\* What one call of update_crc32c_runtime adds to the probe count on this CPU.
ProbesPerCall == IF cpu.target \in X86Targets THEN 1 ELSE 0

\* C16 as stated: over all update calls of the process the probe is evaluated
\* at most once.
C16_Original == probes <= 1

\* C16, amended: update goes through update_crc32c_runtime, which evaluates the
\* probe on every call (on x86 and x86_64; never elsewhere), and leaves the
\* dispatch slot alone: the probe count is the number of update and checksum
\* calls, and UPDATE_CRC32C keeps its initializer.
C16_UpdateProbesEveryCall ==
    /\ [](/\ probes = feeds * ProbesPerCall
          /\ slot = UPDATE_CRC32C_initial(cpu)
          /\ detects = 0
          /\ stores = {})
    /\ [][CrcCalls({"update", "checksum"})
            => /\ probes' = probes + ProbesPerCall
               /\ crcLast'.probed = ProbesPerCall]_vars

\* Two update calls on one accumulator have evaluated the probe twice.
C16_Witness ==
    /\ crcLast.op = "update"
    /\ crcLast.before # <<>>
    /\ feeds = 2
    /\ probes = 2
    /\ slot = "detect_update_crc32c"

(***************************************************************************)
(* The dispatch layer as a state machine: threads call update_crc32c_lazy  *)
(* and update_crc32c_runtime.  A lazy call is cut at its accesses to       *)
(* UPDATE_CRC32C (one atomic load, one atomic store) and at the probe.     *)
(***************************************************************************)
\* Registers the calls start from, and the buffers they pass.
StartStates == {INIT_CRC32, CHECK_123456789}
DispatchBuffers ==
    {[ptr |-> 0, bytes |-> <<>>],
     [ptr |-> 3, bytes |-> ASCII_123456789],
     [ptr |-> 3, bytes |-> ASCII_123456789 \o <<97, 98, 99, 100, 101, 102, 103, 104>>]}

\* The functions UPDATE_CRC32C can point to once detection has stored.
Backends == {"software::update_crc32c", "sse42::update_crc32c"}

\* update_crc32c_runtime and the call through a backend pointer, tabulated
\* over the CPUs and the arguments of the model.
RUNTIME_RESULTS ==
    [c \in Cpus, state \in StartStates, data \in DispatchBuffers |->
        update_crc32c_runtime(c, state, data)]
BACKEND_RESULTS ==
    [crc \in Backends, c \in Cpus, state \in StartStates, data \in DispatchBuffers |->
        CallBackend(crc, c, state, data)]

\* Only the dispatch layer moves.
DispatchFrame ==
    UNCHANGED <<hashVars, cpu, reg, crcFed, crcOps, feeds, crcLast, resets, input, state0, outs>>

\* update_crc32c_lazy(state, data) is entered:
\*   let crc_ptr = UPDATE_CRC32C.load(Ordering::Relaxed);
LazyLoad(t) ==
    \E state \in StartStates, data \in DispatchBuffers :
        /\ th[t].pc = "idle"
        /\ calls < MaxCalls
        /\ calls' = calls + 1
        /\ th' = [th EXCEPT ![t] =
                     [IdleThread EXCEPT
                         !.pc = IF slot = "detect_update_crc32c" THEN "detect" ELSE "call",
                         !.fn = "update_crc32c_lazy", !.crc_ptr = slot,
                         !.crc = IF slot = "detect_update_crc32c" THEN "" ELSE slot,
                         !.state = state, !.data = data]]
        /\ UNCHANGED <<slot, stores, detects, probes, hwRuns>>
        /\ DispatchFrame

\* A detection that waits while another thread is in the middle of its own.
DetectProbe_Waiting(t) ==
    /\ th[t].pc = "detect"
    /\ \A u \in Threads \ {t} : th[u].pc # "store"
    /\ th' = [th EXCEPT ![t].pc = "store", ![t].crc = detect_choice(cpu),
                        ![t].probed = th[t].probed + 1]
    /\ probes' = probes + 1
    /\ detects' = detects + 1
    /\ UNCHANGED <<slot, stores, hwRuns, calls>>
    /\ DispatchFrame

\* crc(state, data) with crc = detect_update_crc32c: the probe and the choice.
DetectProbe(t) ==
    /\ th[t].pc = "detect"
    /\ th' = [th EXCEPT ![t].pc = "store", ![t].crc = detect_choice(cpu),
                        ![t].probed = th[t].probed + 1]
    /\ probes' = probes + 1
    /\ detects' = detects + 1
    /\ UNCHANGED <<slot, stores, hwRuns, calls>>
    /\ DispatchFrame

\* UPDATE_CRC32C.store(crc as *mut FnCRC32, Ordering::Relaxed);
DetectStore(t) ==
    /\ th[t].pc = "store"
    /\ slot' = UPDATE_CRC32C_store(slot, th[t].crc)
    /\ stores' = stores \cup {th[t].crc}
    /\ th' = [th EXCEPT ![t].pc = "call"]
    /\ UNCHANGED <<probes, detects, hwRuns, calls>>
    /\ DispatchFrame

\* crc(state, data) with crc a backend: the call returns its result.
CallReturn(t) ==
    /\ th[t].pc = "call"
    /\ th' = [th EXCEPT ![t].pc = "idle", ![t].ran = th[t].crc,
                        ![t].ret = BACKEND_RESULTS[th[t].crc, cpu, th[t].state, th[t].data]]
    /\ hwRuns' = hwRuns + HwRun(th[t].crc)
    /\ UNCHANGED <<slot, stores, probes, detects, calls>>
    /\ DispatchFrame

\* update_crc32c_runtime(state, data): touches nothing shared.
Runtime(t) ==
    \E state \in StartStates, data \in DispatchBuffers :
        LET run == RUNTIME_RESULTS[cpu, state, data]
        IN  /\ th[t].pc = "idle"
            /\ calls < MaxCalls
            /\ calls' = calls + 1
            /\ th' = [th EXCEPT ![t] =
                         [IdleThread EXCEPT
                             !.fn = "update_crc32c_runtime", !.state = state,
                             !.data = data, !.ret = run.ret, !.probed = run.probed,
                             !.ran = run.ran]]
            /\ probes' = probes + run.probed
            /\ hwRuns' = hwRuns + HwRun(run.ran)
            /\ UNCHANGED <<slot, stores, detects>>
            /\ DispatchFrame

InitDispatch == HashUnborn /\ NoBackendUse /\ \E c \in Cpus : CrcUnused(c)

NextDispatch ==
    \E t \in Threads :
        LazyLoad(t) \/ DetectProbe(t) \/ DetectStore(t) \/ CallReturn(t) \/ Runtime(t)

SpecDispatch == InitDispatch /\ [][NextDispatch]_vars

\* The steps thread t takes inside update_crc32c_lazy once it has loaded.
LazyStep(t) == DetectProbe(t) \/ DetectStore(t) \/ CallReturn(t)

\* Thread 1 keeps running while it is inside a call; thread 2 is scheduled or
\* not, and may stop anywhere.
SpecDispatchRunning == SpecDispatch /\ WF_vars(LazyStep(1))

(***************************************************************************)
(* Claims about the dispatch layer, under SpecDispatch.                    *)
(***************************************************************************)
\* Thread t has made a call of fn that has returned.
Returned(t, fn) == th[t].pc = "idle" /\ th[t].fn = fn

\* The step is thread t entering update_crc32c_lazy (its load of the slot).
Loads(t) == th[t].pc = "idle" /\ th'[t].pc # "idle"

ProbedBackend ==
    IF cpu.sse42 THEN "sse42::update_crc32c" ELSE "software::update_crc32c"

\* C18: every store to UPDATE_CRC32C writes the backend the probe determines,
\* the slot holds its initializer or that backend, and a lazy call returns the
\* value of that backend whether it loaded the thunk or the backend: two calls
\* with the same arguments return the same value.
C18_RacingStoresAgree ==
    /\ stores \subseteq {ProbedBackend}
    /\ slot \in {UPDATE_CRC32C_initial(cpu), ProbedBackend}
    /\ \A t \in Threads :
           /\ th[t].pc \in {"store", "call"} => th[t].crc = ProbedBackend
           /\ Returned(t, "update_crc32c_lazy")
                => th[t].ret = BACKEND_RESULTS[ProbedBackend, cpu, th[t].state, th[t].data]
    /\ \A t, u \in Threads :
           (/\ Returned(t, "update_crc32c_lazy")
            /\ Returned(u, "update_crc32c_lazy")
            /\ th[t].state = th[u].state
            /\ th[t].data = th[u].data)
               => th[t].ret = th[u].ret

\* Two lazy calls with the same 17 bytes returned: one had loaded the thunk and
\* stored, the other had loaded what a racing detection stored before.
C18_Witness ==
    /\ Returned(1, "update_crc32c_lazy")
    /\ Returned(2, "update_crc32c_lazy")
    /\ th[1].crc_ptr = "detect_update_crc32c"
    /\ th[2].crc_ptr = "sse42::update_crc32c"
    /\ detects = 1
    /\ th[1].state = th[2].state
    /\ th[1].data = th[2].data
    /\ Len(th[1].data.bytes) >= CRC32C_UNROLL_THRESHOLD
    /\ th[1].ret = th[2].ret

\* C19: sse42::update_crc32c runs only on a CPU whose probe answers true and
\* only after the probe was evaluated: in update_crc32c_runtime by the call
\* itself, through UPDATE_CRC32C by a detection that stored it.  With a probe
\* answering false the hardware backend never runs and is never stored.
C19_HardwareOnlyAfterTrueProbe ==
    /\ hwRuns > 0 => (cpu.sse42 /\ cpu.target \in X86Targets /\ probes >= 1)
    /\ (slot = "sse42::update_crc32c" \/ "sse42::update_crc32c" \in stores)
            => (cpu.sse42 /\ detects >= 1)
    /\ \A t \in Threads :
           /\ th[t].crc = "sse42::update_crc32c"
                => /\ cpu.sse42
                   /\ th[t].probed = 1 \/ th[t].crc_ptr = "sse42::update_crc32c"
           /\ th[t].ran = "sse42::update_crc32c"
                => /\ cpu.sse42
                   /\ th[t].probed = 1 \/ th[t].crc_ptr = "sse42::update_crc32c"
           /\ (Returned(t, "update_crc32c_runtime") /\ cpu.target \in X86Targets)
                => th[t].probed = 1
    /\ ~cpu.sse42
            => /\ hwRuns = 0
               /\ slot # "sse42::update_crc32c"
               /\ \A t \in Threads : th[t].ran # "sse42::update_crc32c"

\* The hardware backend ran in update_crc32c_runtime and through the slot.
C19_Witness ==
    /\ cpu.sse42
    /\ Returned(1, "update_crc32c_runtime")
    /\ th[1].ran = "sse42::update_crc32c"
    /\ Returned(2, "update_crc32c_lazy")
    /\ th[2].ran = "sse42::update_crc32c"
    /\ th[2].crc_ptr = "sse42::update_crc32c"
    /\ hwRuns = 3

\* software::update_crc32c over the arguments of the model.
SOFTWARE_RESULTS ==
    [state \in StartStates, data \in DispatchBuffers |->
        software_update_crc32c(state, data)]

\* C20: on every target, with either answer of the probe and whatever the slot
\* held when it was loaded, update_crc32c_runtime and update_crc32c_lazy return
\* what software::update_crc32c returns for the same state and data.
C20_EntryPointsMatchSoftware ==
    /\ \A t \in Threads :
           (th[t].pc = "idle" /\ th[t].fn # "")
               => /\ th[t].ret = SOFTWARE_RESULTS[th[t].state, th[t].data]
                  /\ th[t].ret = RUNTIME_RESULTS[cpu, th[t].state, th[t].data].ret
    /\ \A state \in StartStates, data \in DispatchBuffers :
           /\ RUNTIME_RESULTS[cpu, state, data].ret = SOFTWARE_RESULTS[state, data]
           /\ BACKEND_RESULTS[detect_choice(cpu), cpu, state, data]
                  = SOFTWARE_RESULTS[state, data]
           /\ slot \in Backends
                => BACKEND_RESULTS[slot, cpu, state, data] = SOFTWARE_RESULTS[state, data]

\* On x86_64 with SSE 4.2 a lazy call that detected and a runtime call, both
\* on 17 bytes from the same register, returned the same value.
C20_Witness ==
    /\ cpu = [target |-> "x86_64", sse42 |-> TRUE]
    /\ Returned(1, "update_crc32c_lazy")
    /\ th[1].crc_ptr = "detect_update_crc32c"
    /\ th[1].ran = "sse42::update_crc32c"
    /\ Returned(2, "update_crc32c_runtime")
    /\ th[1].state = th[2].state
    /\ th[1].data = th[2].data
    /\ Len(th[1].data.bytes) >= CRC32C_UNROLL_THRESHOLD
    /\ th[1].ret = th[2].ret
    /\ th[1].ret = SOFTWARE_RESULTS[th[1].state, th[1].data]

\* The step is a call of update_crc32c_runtime: a call is made and no thread
\* moves into or inside update_crc32c_lazy.
RuntimeStep == calls' # calls /\ \A t \in Threads : th'[t].pc = th[t].pc

\* C22: on x86 and x86_64 every call of update_crc32c_runtime evaluates the
\* probe, once, whatever UPDATE_CRC32C holds and however many calls came
\* before; it leaves the slot, the stores and the detections as they are, and
\* what it returns depends on its arguments only.  As long as no lazy call was
\* made, the probes number the calls.
C22_RuntimeProbesEveryCall ==
    /\ []((/\ cpu.target \in X86Targets
           /\ detects = 0
           /\ \A t \in Threads : th[t].pc = "idle") => probes = calls)
    /\ [][RuntimeStep
            => /\ cpu.target \in X86Targets => probes' = probes + 1
               /\ slot' = slot
               /\ stores' = stores
               /\ detects' = detects
               /\ \A t \in Threads : \A r \in {th'[t]} :
                      (r.fn = "update_crc32c_runtime" /\ r.pc = "idle")
                          => /\ cpu.target \in X86Targets => r.probed = 1
                             /\ r.crc_ptr = ""
                             /\ r.ret = RUNTIME_RESULTS[cpu, r.state, r.data].ret]_vars

\* After a lazy call has published the hardware backend, two calls of
\* update_crc32c_runtime each evaluated the probe again.
C22_Witness ==
    /\ slot = "sse42::update_crc32c"
    /\ detects = 1
    /\ probes = 3
    /\ calls = 3
    /\ \A t \in Threads : Returned(t, "update_crc32c_runtime") /\ th[t].probed = 1

\* Thread t is inside update_crc32c_lazy, and the steps it still has to take
\* from where it is: probe, store and call after loading the thunk, the call
\* alone after loading a backend.
InLazy(t) == th[t].pc # "idle"
StepsLeft(pc) == CASE pc = "detect" -> 3 [] pc = "store" -> 2 [] pc = "call" -> 1
                   [] OTHER -> 0

\* C23: a thread inside update_crc32c_lazy always has its next step enabled,
\* wherever the other thread is; each of its steps takes it one step closer to
\* the return, at most three after the load; no step of another thread moves
\* it; so a thread that keeps running returns from every call, also when the
\* other thread stops in the middle of detection.
C23_LazyNeverWaits ==
    /\ [](\A t \in Threads : InLazy(t) => ENABLED LazyStep(t))
    /\ [][\A t \in Threads :
             /\ (InLazy(t) /\ th'[t] # th[t])
                    => StepsLeft(th'[t].pc) = StepsLeft(th[t].pc) - 1
             /\ (~InLazy(t) /\ InLazy(t)')
                    => StepsLeft(th'[t].pc) \in {1, 3}
             /\ \A u \in Threads \ {t} : th'[u] # th[u] => th'[t] = th[t]]_vars
    /\ (InLazy(1) ~> ~InLazy(1))
    /\ (WF_vars(LazyStep(2)) => (InLazy(2) ~> ~InLazy(2)))

\* Thread 1 went through detection and returned while thread 2 was stopped in
\* the middle of its own detection, between its probe and its store.
C23_Witness ==
    /\ Returned(1, "update_crc32c_lazy")
    /\ th[1].crc_ptr = "detect_update_crc32c"
    /\ th[1].probed = 1
    /\ th[2].pc = "store"
    /\ slot = ProbedBackend

\* The step is the return of thread t from update_crc32c_lazy.
LazyReturns(t) == th[t].pc = "call" /\ th'[t].pc = "idle"

\* C24: on x86 and x86_64 UPDATE_CRC32C holds detect_update_crc32c until the
\* first store; when a lazy call returns, the first one included, it holds the
\* backend the probe selects (sse42 when true, software when false); once it
\* holds a backend it never changes again; and a call that starts from then on
\* loads that backend, calls it and returns without evaluating the probe.
C24_SlotLifecycle ==
    /\ [](cpu.target \in X86Targets
            => /\ stores = {} => slot = "detect_update_crc32c"
               /\ calls = 0 => slot = "detect_update_crc32c"
               /\ slot \in {"detect_update_crc32c", ProbedBackend}
               /\ \A t \in Threads :
                      (th[t].fn = "update_crc32c_lazy" /\ th[t].crc_ptr \in Backends)
                          => th[t].probed = 0 /\ th[t].crc = ProbedBackend)
    /\ [][cpu.target \in X86Targets
            => /\ slot # "detect_update_crc32c" => slot' = slot
               /\ \A t \in Threads :
                      /\ LazyReturns(t)
                           => /\ slot = ProbedBackend
                              /\ slot' = ProbedBackend
                              /\ th'[t].ran = ProbedBackend
                              /\ ProbedBackend = (IF is_x86_feature_detected(cpu)
                                                  THEN "sse42::update_crc32c"
                                                  ELSE "software::update_crc32c")
                      /\ (Loads(t) /\ slot # "detect_update_crc32c")
                           => /\ th'[t].crc_ptr = ProbedBackend
                              /\ th'[t].pc = "call"
                              /\ probes' = probes
                      /\ (LazyReturns(t) /\ th[t].crc_ptr \in Backends)
                           => probes' = probes /\ th'[t].probed = 0]_vars

\* On a CPU without SSE 4.2 the first lazy call detected and published the
\* software backend; a second call, made after it, loaded the backend and
\* returned, and the probe was evaluated once in all.
C24_Witness ==
    /\ cpu = [target |-> "x86", sse42 |-> FALSE]
    /\ Returned(1, "update_crc32c_lazy")
    /\ th[1].crc_ptr = "detect_update_crc32c"
    /\ Returned(2, "update_crc32c_lazy")
    /\ th[2].crc_ptr = "software::update_crc32c"
    /\ th[2].probed = 0
    /\ slot = "software::update_crc32c"
    /\ probes = 1
    /\ calls = 2

(***************************************************************************)
(* The backends side by side (sse42.rs, tests::same_as_software): one      *)
(* buffer, one starting register, and each of the update functions called  *)
(* on them.  The sse42 functions are unsafe and are called on CPUs with    *)
(* SSE 4.2 only.                                                           *)
(***************************************************************************)
\* rand::bytes(&mut input): byte i of the random input.
RandomByte(i) == (7 + 89 * i) % 256

\* &input[0..length], at every address modulo 8.
TestContents == {[i \in 1..n |-> RandomByte(i)] : n \in 0..MaxBufLen}
Addresses == 0..(QWORD_SIZE - 1)
TestBuffers == {[ptr |-> a, bytes |-> bs] : a \in Addresses, bs \in TestContents}

\* The CPUs the sse42 module may be called on.
Sse42Cpus == {c \in Cpus : c.target \in X86Targets /\ c.sse42}

\* The update functions, tabulated over the registers and buffers of the model.
\* software::update_crc32c and update_crc32c_linear take the bytes in and never
\* look at their address.
SOFTWARE_OUT ==
    [state \in StartStates, bytes \in TestContents |->
        software_update_crc32c(state, [ptr |-> 0, bytes |-> bytes])]
LINEAR_OUT ==
    [state \in StartStates, bytes \in TestContents |->
        update_crc32c_linear(state, [ptr |-> 0, bytes |-> bytes])]
UNROLLED_OUT ==
    [target \in X86Targets, state \in StartStates, data \in TestBuffers |->
        update_crc32c_unrolled(target, state, data)]

\* A call that returned: the function it ran, the split align_to gave it, and
\* its result.
Called(ran, parts, ret) == [done |-> TRUE, ran |-> ran, parts |-> parts, ret |-> ret]

\* Only the record of the backend calls moves.
BackendFrame ==
    UNCHANGED <<hashVars, cpu, probes, hwRuns, reg, crcFed, crcOps, feeds, crcLast, resets,
                slot, th, stores, detects, calls, input, state0>>

\* software::update_crc32c(state0, input)
SoftwareUpdate ==
    /\ outs' = [outs EXCEPT !["software::update_crc32c"] =
                    Called("update_crc32c", NoParts, SOFTWARE_OUT[state0, input.bytes])]
    /\ BackendFrame

\* sse42::update_crc32c_linear(state0, input)
LinearUpdate ==
    /\ outs' = [outs EXCEPT !["sse42::update_crc32c_linear"] =
                    Called("update_crc32c_linear", NoParts, LINEAR_OUT[state0, input.bytes])]
    /\ BackendFrame

\* sse42::update_crc32c_unrolled(state0, input)
UnrolledUpdate ==
    /\ outs' = [outs EXCEPT !["sse42::update_crc32c_unrolled"] =
                    Called("update_crc32c_unrolled", align_to(input, WordSize(cpu.target)),
                           UNROLLED_OUT[cpu.target, state0, input])]
    /\ BackendFrame

\* sse42::update_crc32c(state0, input): runs one of the two above.
Sse42Update ==
    LET ran == sse42_strategy(input)
    IN  /\ outs' = [outs EXCEPT !["sse42::update_crc32c"] =
                        IF ran = "update_crc32c_unrolled"
                        THEN Called(ran, align_to(input, WordSize(cpu.target)),
                                    UNROLLED_OUT[cpu.target, state0, input])
                        ELSE Called(ran, NoParts, LINEAR_OUT[state0, input.bytes])]
        /\ BackendFrame

InitBackends ==
    /\ HashUnborn
    /\ \E c \in Sse42Cpus : CrcUnused(c)
    /\ \E state \in StartStates, data \in TestBuffers : BackendsUncalled(state, data)

NextBackends == SoftwareUpdate \/ LinearUpdate \/ UnrolledUpdate \/ Sse42Update

SpecBackends == InitBackends /\ [][NextBackends]_vars

(***************************************************************************)
(* Claims about the backends, under SpecBackends.                          *)
(***************************************************************************)
\* The three functions tests::same_as_software compares.
ComparedFns ==
    {"software::update_crc32c", "sse42::update_crc32c_linear", "sse42::update_crc32c_unrolled"}

\* C21: at every address modulo 8 and for every length up to MaxBufLen, started
\* from INIT the linear update, the unrolled update (of x86 and of x86_64) and
\* the software update give the same register, and so does every call of them
\* that returned.
C21_UnrolledLinearSoftwareAgree ==
    state0 = INIT_CRC32
        => /\ LINEAR_OUT[state0, input.bytes] = SOFTWARE_OUT[state0, input.bytes]
           /\ \A target \in X86Targets :
                  UNROLLED_OUT[target, state0, input] = SOFTWARE_OUT[state0, input.bytes]
           /\ \A f \in ComparedFns :
                  outs[f].done => outs[f].ret = SOFTWARE_OUT[state0, input.bytes]
           /\ \A f, g \in ComparedFns :
                  (outs[f].done /\ outs[g].done) => outs[f].ret = outs[g].ret

\* On x86_64 the three functions returned the same register for a buffer at an
\* odd address that the unrolled update took as a prefix, a quadword and a
\* suffix.
C21_Witness ==
    /\ cpu.target = "x86_64"
    /\ state0 = INIT_CRC32
    /\ input.ptr = 3
    /\ \A f \in ComparedFns : outs[f].done
    /\ Len(outs["sse42::update_crc32c_unrolled"].parts.prefix) = 5
    /\ Len(outs["sse42::update_crc32c_unrolled"].parts.words) = 1
    /\ Len(outs["sse42::update_crc32c_unrolled"].parts.suffix) = 7
    /\ outs["sse42::update_crc32c_unrolled"].ret = outs["software::update_crc32c"].ret
    /\ outs["sse42::update_crc32c_linear"].ret = outs["software::update_crc32c"].ret
    /\ outs["software::update_crc32c"].ret # INIT_CRC32

\* The parts a returned call of update_crc32c_unrolled split its buffer into.
UnrolledParts == outs["sse42::update_crc32c_unrolled"].parts

\* C27: the unrolled update processes every byte of the buffer exactly once and
\* in stream order: the prefix, the aligned words and the suffix lie one after
\* the other without overlap and together are the buffer; the words start at
\* a word-aligned address and take a whole number of words; and the register
\* that leaves one segment is the one that enters the next, so the returned
\* register is that of the bytes taken one at a time from first to last.
C27_UnrolledProcessesEachByteOnce ==
    outs["sse42::update_crc32c_unrolled"].done
        => LET w == WordSize(cpu.target)
               prefix == UnrolledParts.prefix
               middle == BytesOfWords(UnrolledParts.words, w)
               suffix == UnrolledParts.suffix
               state1 == crc32_bytes(state0, prefix, 1)
               state2 == IF cpu.target = "x86"
                         THEN crc32_dwords(state1, UnrolledParts.words, 1)
                         ELSE AsU32(crc32_qwords(AsU64(state1), UnrolledParts.words, 1))
               state3 == crc32_bytes(state2, suffix, 1)
           IN  /\ prefix \o middle \o suffix = input.bytes
               /\ prefix = SubSeq(input.bytes, 1, Len(prefix))
               /\ middle = SubSeq(input.bytes, Len(prefix) + 1, Len(prefix) + Len(middle))
               /\ suffix = SubSeq(input.bytes, Len(prefix) + Len(middle) + 1,
                                  Len(input.bytes))
               /\ UnrolledParts.words # <<>> => (input.ptr + Len(prefix)) % w = 0
               /\ Len(middle) % w = 0
               /\ Len(middle) = w * Len(UnrolledParts.words)
               /\ state1 = LINEAR_OUT[state0, prefix]
               /\ outs["sse42::update_crc32c_unrolled"].ret = state3
               /\ outs["sse42::update_crc32c_unrolled"].ret
                    = LINEAR_OUT[state0, input.bytes]

\* On x86 a buffer of 19 bytes at an address one past a multiple of four was
\* taken as 3 bytes, 4 double words and 0 bytes; the call started from the
\* register of "123456789".
C27_Witness ==
    /\ cpu.target = "x86"
    /\ state0 = CHECK_123456789
    /\ input.ptr = 5
    /\ Len(input.bytes) = 19
    /\ outs["sse42::update_crc32c_unrolled"].done
    /\ Len(UnrolledParts.prefix) = 3
    /\ Len(UnrolledParts.words) = 4
    /\ Len(UnrolledParts.suffix) = 0
    /\ BytesOfWord(UnrolledParts.words[1], DWORD_SIZE) = SubSeq(input.bytes, 4, 7)

\* C28: sse42::update_crc32c runs the linear update on a buffer shorter than
\* CRC32C_UNROLL_THRESHOLD and the unrolled update on a buffer of that length
\* or longer, and whichever it runs, for every register and buffer it returns
\* what update_crc32c_linear returns for them.
C28_Sse42ThresholdDispatch ==
    outs["sse42::update_crc32c"].done
        => LET o == outs["sse42::update_crc32c"]
               n == Len(input.bytes)
           IN  /\ n < CRC32C_UNROLL_THRESHOLD => o.ran = "update_crc32c_linear"
               /\ n >= CRC32C_UNROLL_THRESHOLD => o.ran = "update_crc32c_unrolled"
               /\ o.ran = "update_crc32c_linear" => o.ret = LINEAR_OUT[state0, input.bytes]
               /\ o.ran = "update_crc32c_unrolled"
                    => o.ret = UNROLLED_OUT[cpu.target, state0, input]
               /\ o.ret = LINEAR_OUT[state0, input.bytes]
               /\ outs["sse42::update_crc32c_linear"].done
                    => o.ret = outs["sse42::update_crc32c_linear"].ret

\* A buffer of exactly CRC32C_UNROLL_THRESHOLD bytes at an odd address went to
\* the unrolled update and came back with the register of the linear update.
C28_Witness ==
    /\ Len(input.bytes) = CRC32C_UNROLL_THRESHOLD
    /\ input.ptr = 1
    /\ outs["sse42::update_crc32c"].done
    /\ outs["sse42::update_crc32c"].ran = "update_crc32c_unrolled"
    /\ outs["sse42::update_crc32c"].parts.words # <<>>
    /\ outs["sse42::update_crc32c_linear"].done
    /\ outs["sse42::update_crc32c"].ret = outs["sse42::update_crc32c_linear"].ret
    /\ outs["sse42::update_crc32c"].ret # state0

\* The 64-bit register of the x86_64 unrolled update after k of its quadword
\* steps, the call having been made with state0 and input.
State64After(k) ==
    crc32_qwords(AsU64(crc32_bytes(state0, UnrolledParts.prefix, 1)),
                 SubSeq(UnrolledParts.words, 1, k), 1)

\* C29: in the unrolled update of x86_64 the widening of the register to 64
\* bits and its truncation after the aligned run lose nothing: before the
\* first quadword step and after every one the upper 32 bits of the widened
\* register are zero and its low 32 bits are the register of the bytes taken
\* one at a time so far, so the truncated value is the byte-at-a-time one.
C29_WideningKeepsRegister ==
    (cpu.target = "x86_64" /\ outs["sse42::update_crc32c_unrolled"].done)
        => /\ \A k \in 0..Len(UnrolledParts.words) :
                  \A state64 \in {State64After(k)} :
                      /\ state64 \subseteq 0..31
                      /\ AsU64(AsU32(state64)) = state64
                      /\ AsU32(state64)
                           = LINEAR_OUT[state0,
                                        SubSeq(input.bytes, 1,
                                               Len(UnrolledParts.prefix) + QWORD_SIZE * k)]
           /\ outs["sse42::update_crc32c_unrolled"].ret
                = crc32_bytes(AsU32(State64After(Len(UnrolledParts.words))),
                              UnrolledParts.suffix, 1)

\* On x86_64 the register entered the quadword loop with its top bit set, two
\* quadwords were taken, and the call returned the byte-at-a-time register.
C29_Witness ==
    /\ cpu.target = "x86_64"
    /\ outs["sse42::update_crc32c_unrolled"].done
    /\ Len(UnrolledParts.words) = 2
    /\ UnrolledParts.prefix # <<>>
    /\ UnrolledParts.suffix # <<>>
    /\ 31 \in State64After(0)
    /\ State64After(2) \subseteq 0..31
    /\ outs["sse42::update_crc32c_unrolled"].ret = LINEAR_OUT[state0, input.bytes]

(***************************************************************************)
(* The empty buffer, under SpecDispatch.                                   *)
(***************************************************************************)
\* Registers the backends are given with an empty buffer, and empty buffers
\* at every address.
EmptyCaseRegisters == StartStates \cup {{}, {0}, {31}}
EmptyBuffers == {[ptr |-> a, bytes |-> <<>>] : a \in Addresses}

\* Every function of the dispatch layer and of the backends, given an empty
\* buffer, returns the register it was given.
EmptyBufferReturnsRegister ==
    \A s \in EmptyCaseRegisters, data \in EmptyBuffers :
        /\ software_update_crc32c(s, data) = s
        /\ update_crc32c_linear(s, data) = s
        /\ \A target \in X86Targets :
               /\ update_crc32c_unrolled(target, s, data) = s
               /\ sse42_update_crc32c(target, s, data) = s
        /\ \A c \in Cpus :
               /\ update_crc32c_runtime(c, s, data).ret = s
               /\ CRC32C_update(c, s, data).ret = s
               /\ \A crc \in Backends :
                      (crc = "sse42::update_crc32c" => c.target \in X86Targets)
                          => CallBackend(crc, c, s, data) = s

\* C30: an empty buffer is the identity for every backend and for the
\* accumulator: the software, linear and unrolled updates, sse42::update_crc32c,
\* update_crc32c_runtime and the backend update_crc32c_lazy calls all return
\* the register they were given, CRC32C::update with empty data leaves the
\* register as it was, and every lazy or runtime call made with an empty
\* buffer returned the register it was passed.
C30_EmptyInputIsIdentity ==
    /\ EmptyBufferReturnsRegister
    /\ \A t \in Threads :
           (/\ Returned(t, "update_crc32c_lazy") \/ Returned(t, "update_crc32c_runtime")
            /\ th[t].data.bytes = <<>>)
               => th[t].ret = th[t].state

\* On x86_64 with SSE 4.2 the first lazy call, which detected, and a runtime
\* call were both made with an empty buffer from the register of "123456789"
\* and returned it.
C30_Witness ==
    /\ cpu = [target |-> "x86_64", sse42 |-> TRUE]
    /\ Returned(1, "update_crc32c_lazy")
    /\ th[1].crc_ptr = "detect_update_crc32c"
    /\ th[1].ran = "sse42::update_crc32c"
    /\ th[1].data.bytes = <<>>
    /\ th[1].state = CHECK_123456789
    /\ th[1].ret = CHECK_123456789
    /\ Returned(2, "update_crc32c_runtime")
    /\ th[2].data.bytes = <<>>
    /\ th[2].state = CHECK_123456789
    /\ th[2].ret = CHECK_123456789

====
